---- MODULE Spec2Model ----
(***************************************************************************)
(* A model of perf-doctor's DevTools protocol client and of its collector  *)
(* managers.  Two generations of the code live side by side in the         *)
(* repository: src/src/infrastructure/devtools/client.py ("src") and       *)
(* src/modules/devtools_client.py ("modules"); the variable `variant`      *)
(* selects the one a behaviour runs.  Spec is the client, SpecManager the  *)
(* collector managers, SpecEvents the event handlers and navigate_to, and  *)
(* SpecCollectors the setup() and collect() of the concrete collectors.    *)
(*                                                                         *)
(* Every asyncio task is a process whose steps are the code between two    *)
(* awaits: the event loop is cooperative, so such a block is atomic.       *)
(***************************************************************************)
EXTENDS Integers, Sequences, FiniteSets, TLC

\* ---------------------------------------------------------------- bounds
MaxCalls == 3
NumCollectors == 3
MaxHandlers == 2
MaxRegistrations == 3   \* calls of register_collector in a behaviour
MaxMeasure == 2         \* distinct non-empty measurements of a collect()
MaxResults == 2         \* results of PaintCollector.collect() kept in view
MaxLoops == 2           \* listen_for_events tasks running at once
MaxTrace == 3           \* Network.* events dispatched between two resets
MaxSessions == 2        \* setup() calls on the modules NetworkCollector

\* ------------------------------------------------------------ value sets
Variants == {"src", "modules"}
Callers == {"c1", "c2"}
Domains == {"Page", "Network"}
Methods == {"Runtime.evaluate"}
EventMethods == {"Page.loadEventFired", "Network.requestWillBeSent"}

VARIABLES
    variant,           \* which DevToolsClient the behaviour runs
    websocket,         \* self.websocket: "none" (None), "open", "closed"
    listener,          \* the listen_for_events task: "none", "running", "ended"
    command_id,        \* self.command_id
    pending_commands,  \* self.pending_commands: id -> future
    enabled_domains,   \* self.enabled_domains
    calls,             \* per calling task: where it is in send_command
    wire,              \* the commands handed to websocket.send, in order
    data,              \* the id of the frame the dispatch loop decoded last
    ncalls,            \* calls started so far
    last,              \* the task that started the latest call
    nframes,           \* frames read by the dispatch loop so far, modulo 2
    collectors,        \* CollectorManager.collectors: the names, in dict order
    enabled,           \* collector name -> its `enabled` flag
    mpc,               \* where the manager is: "idle", "domains", "setup",
                       \* "done", "collect", "collected", "raised"
    idx,               \* position of the manager's loop over collectors
    required,          \* modules: required_domains not yet enabled
    setup_results,     \* modules: the local list setup_results
    setup_log,         \* the setup() invocations of this run: <<name, outcome>>
    retval,            \* what setup_all_collectors returned
    collected_data,    \* the data map collect_all_data returned: name -> entry
    collection_results, \* collect_all_data: <<name, success>> per collect()
    summary,           \* the summary collect_all_data returned
    event_handlers,    \* self.event_handlers: event name -> list of handlers
    page_loaded,       \* src: the future self._page_loaded
    event,             \* the method of the event the loop dispatched last
    invoked,           \* the handlers that event invoked, in order
    raised,            \* the handlers that raised while it was dispatched
    load_seen,         \* whether, and when, the running navigate_to call
                       \* saw a load event before its timer fired
    subject,           \* the collector whose setup() or collect() runs
    operation,         \* "setup" or "collect"
    step,              \* the command of the operation that is awaited
    failures,          \* the commands of the operation that failed, and how
    returned,          \* what the operation returned
    service,           \* where collect_performance_data is: "idle", "setup",
                       \* "collect", "returned", "raised"
    registrations,     \* the names register_collector was called with: the
                       \* i-th call registered the collector object i
    objects,           \* CollectorManager.collectors: name -> collector object
    asked,             \* the name given to the latest get_collector
    got,               \* what it returned: an object, or 0 for None
    got_all,           \* what the latest get_all_collectors returned
    requests,          \* src NetworkCollector.requests: 0 for [], else the
                       \* measurement it was assigned
    collector_state,   \* "new", "reset" (reset() ran and nothing was stored
                       \* since) or "used"
    net_result,        \* the latest result of NetworkCollector.collect()
    paint_data,        \* src PaintCollector.paint_data: metric -> value
    paint_results,     \* the results PaintCollector.collect() returned
    loops,             \* the listen_for_events tasks that are running
    nav,               \* the navigate_to calls made so far
    owed,              \* the navigations whose Page.navigate was written and
                       \* whose load event the browser has not sent yet
    settled_by,        \* the navigation whose load event set the result of
                       \* the current load future, 0 if none did
    dropped,           \* whether the dispatch loop has dropped a frame
    request_data,      \* modules NetworkCollector.request_data: requestId ->
                       \* the entry's "type"
    network_events,    \* modules NetworkCollector.network_events: the
                       \* requestId of each appended record
    net_handlers,      \* how many times the client's handler lists hold the
                       \* collector's four Network.* handlers
    resources,         \* the requestIds in the resources of the latest
                       \* collect()
    trace,             \* the Network.* events dispatched to the collector
                       \* since it was constructed or reset: <<kind, requestId>>
    collected,         \* collect() returned `resources` and no event was
                       \* dispatched and no reset() made since
    session            \* the collector's session: "new", "setup" (setup()
                       \* ran) or "reset" (reset() ended it)

cvars == <<variant, websocket, listener, command_id, pending_commands,
           enabled_domains, calls, wire, data, ncalls, last, nframes>>

mvars == <<collectors, enabled, mpc, idx, required, setup_results, setup_log,
           retval, collected_data, collection_results, summary>>

evars == <<event_handlers, page_loaded, event, invoked, raised, load_seen>>

kvars == <<subject, operation, step, failures, returned>>

svars == <<service>>

rvars == <<registrations, objects, asked, got, got_all>>

dvars == <<requests, collector_state, net_result, paint_data, paint_results>>

lvars == <<loops>>

nvars == <<nav, owed, settled_by>>

bvars == <<dropped>>

wvars == <<request_data, network_events, net_handlers, resources, trace,
           collected, session>>

vars == <<cvars, mvars, evars, kvars, svars, rvars, dvars, lvars, nvars, bvars, wvars>>

\* ------------------------------------------------------------- helpers
NoSummary == [total |-> 0, enabled |-> 0, successful |-> 0, failed |-> 0]

Frames == [id : 1..MaxCalls, error : BOOLEAN]

NewFuture == [state |-> "pending", value |-> 0]

IdleCall == [pc |-> "idle", op |-> "none", arg |-> "none", id |-> 0,
             sendok |-> FALSE, outcome |-> "none", value |-> 0,
             cause |-> "none",
                received |-> 0]

\* dict.pop(command_id, None)
PopPendingKeep(p, id) == p
PopPending(p, id) == [k \in DOMAIN p \ {id} |-> p[k]]

\* self.command_id += 1; return self.command_id
get_next_command_id_stuck(cid) == cid
get_next_command_id(cid) == cid + 1

\* "<domain>.enable"
EnableMethod(d) == <<d, "enable">>

\* `if domain in self.enabled_domains`
IsEnabledNever(d) == FALSE
IsEnabled(d) == d \in enabled_domains

\* `if response is not None: self.enabled_domains.add(domain)`
EnabledAfterAlways(doms, d, ok) == doms \cup {d}
EnabledAfterReplace(doms, d, ok) ==
    IF ok THEN {d} ELSE doms
EnabledAfter(doms, d, ok) == IF ok THEN doms \cup {d} ELSE doms

\* What send_command hands to its caller, by the way the wait ended.
\* src: every failure leaves through `except Exception` and is re-raised as
\* DevToolsException, the TimeoutException of the inner handler included;
\* modules: every failure returns None.
SendCommandOutcome(v, cause) ==
    IF cause = "reply" THEN "value"
    ELSE IF v = "src" THEN "DevToolsException" ELSE "None"

\* What the operation wrapped around send_command hands to its caller.
OpOutcomeUncaught(v, op, cause) == SendCommandOutcome(v, cause)
OpOutcome(v, op, cause) ==
    LET r == SendCommandOutcome(v, cause) IN
    CASE op = "send" -> r
      [] op = "enable" ->
            IF r = "value" THEN "True"
            ELSE IF r = "None" THEN "False" ELSE r
      [] op = "connect" ->
            IF r = "value" THEN "True" ELSE "DevToolsException"
      [] op = "navigate" ->
            IF r = "value" THEN "True" ELSE "False"
      [] OTHER -> r

\* What the caller of send_command receives of the payload its future was
\* settled with: the result of a reply in both generations; the error of an
\* error reply inside the message of the DevToolsException in src, nothing
\* (None, the error is only logged) in modules.
CarriedNever(v, cause, value) ==
    IF cause = "reply" THEN value ELSE 0
Carried(v, cause, value) ==
    CASE cause = "reply" -> value
      [] cause = "error" -> IF v = "src" THEN value ELSE 0
      [] OTHER -> 0

\* No handler is registered, no navigation has created a load future.
NoEvents ==
    /\ event_handlers = [m \in EventMethods |-> <<>>]
    /\ page_loaded = "none"
    /\ event = "none"
    /\ invoked = <<>>
    /\ raised = {}
    /\ load_seen = "no"

\* collect_performance_data has not been called.
NoService == service = "idle"

\* Nothing has been registered through register_collector, nothing asked.
NoRegistrations ==
    /\ registrations = <<>>
    /\ objects = <<>>
    /\ asked = "none"
    /\ got = 0
    /\ got_all = <<>>

\* The result variable before any collect() of the network collector.
NoResult == [data |-> 0, measured |-> 0, state |-> "none", error |-> FALSE]

\* The src collectors as constructed: nothing accumulated, nothing returned.
NoCollected ==
    /\ requests = 0
    /\ collector_state = "new"
    /\ net_result = NoResult
    /\ paint_data = <<>>
    /\ paint_results = <<>>

\* One listen_for_events task runs where the client starts with a running
\* dispatch loop, none otherwise.
InitialLoops == loops = IF listener = "running" THEN 1 ELSE 0

\* No navigate_to call has been made.
NoNavigation ==
    /\ nav = 0
    /\ owed = {}
    /\ settled_by = 0

\* The dispatch loop has dropped no frame.
NoneDropped == dropped = FALSE

\* The modules NetworkCollector as constructed, before setup().
NoNetworkEvents ==
    /\ request_data = <<>>
    /\ network_events = <<>>
    /\ net_handlers = 0
    /\ resources = {}
    /\ trace = <<>>
    /\ collected = FALSE
    /\ session = "new"

\* No collector operation has run.
NoOperation ==
    /\ subject = "none"
    /\ operation = "none"
    /\ step = 0
    /\ failures = {}
    /\ returned = "none"

CanStart(c) ==
    /\ calls[c].pc \in {"idle", "returned"}
    /\ ncalls < MaxCalls

\* ----------------------------------------------------------------- Init
Init ==
    /\ variant \in Variants
    /\ websocket = "none"
    /\ listener = "none"
    /\ command_id = 0
    /\ pending_commands = <<>>
    /\ enabled_domains = {}
    /\ calls = [c \in Callers |-> IdleCall]
    /\ wire = <<>>
    /\ data = 0
    /\ ncalls = 0
    /\ last = "none"
    /\ nframes = 0
    /\ collectors = <<>>
    /\ enabled = <<>>
    /\ mpc = "idle"
    /\ idx = 0
    /\ required = {}
    /\ setup_results = <<>>
    /\ setup_log = <<>>
    /\ retval = "none"
    /\ collected_data = <<>>
    /\ collection_results = <<>>
    /\ summary = NoSummary
    /\ NoEvents
    /\ NoOperation
    /\ NoService
    /\ NoRegistrations
    /\ NoNetworkEvents
    /\ NoneDropped
    /\ NoNavigation
    /\ InitialLoops
    /\ NoCollected

\* -------------------------------------------------------------- actions
\* The table when send_command reaches `await self.websocket.send(...)`:
\* the future of the new id has been stored in it on the line before.
EntryAfterWrite(p, id) == p
EntryBeforeWrite(p, id) ==
    [k \in DOMAIN p \cup {id} |-> IF k = id THEN NewFuture ELSE p[k]]

\* send_command from its entry to the await of websocket.send.
BeginSend(c, op, method, dom) ==
    IF websocket = "none"
    THEN /\ calls' = [calls EXCEPT ![c] =
                [pc |-> "returned", op |-> op, arg |-> dom, id |-> 0,
                 sendok |-> FALSE,
                 outcome |-> OpOutcome(variant, op, "notconnected"),
                 value |-> 0, cause |-> "notconnected",
                received |-> 0]]
         /\ UNCHANGED <<command_id, pending_commands, wire>>
    ELSE LET id == get_next_command_id(command_id) IN
         /\ command_id' = id
         /\ pending_commands' = EntryBeforeWrite(pending_commands, id)
         /\ wire' = IF websocket = "open"
                    THEN Append(wire, [id |-> id, method |-> method])
                    ELSE wire
         /\ calls' = [calls EXCEPT ![c] =
                [pc |-> "sending", op |-> op, arg |-> dom, id |-> id,
                 sendok |-> (websocket = "open"), outcome |-> "none",
                 value |-> 0, cause |-> "none",
                received |-> 0]]

SendCommand(c, m) ==
    /\ CanStart(c)
    /\ ncalls' = ncalls + 1
    /\ last' = c
    /\ BeginSend(c, "send", m, "none")
    /\ UNCHANGED <<variant, websocket, listener, enabled_domains, data, nframes>>
    /\ UNCHANGED <<mvars, evars, kvars, svars, rvars, wvars, bvars, nvars, lvars, dvars>>

EnableDomain(c, d) ==
    /\ CanStart(c)
    /\ ncalls' = ncalls + 1
    /\ last' = c
    /\ IF IsEnabled(d)
       THEN /\ calls' = [calls EXCEPT ![c] =
                    [pc |-> "returned", op |-> "enable", arg |-> d, id |-> 0,
                     sendok |-> FALSE, outcome |-> "True", value |-> 0,
                     cause |-> "cached",
                received |-> 0]]
            /\ UNCHANGED <<command_id, pending_commands, wire>>
       ELSE BeginSend(c, "enable", EnableMethod(d), d)
    /\ UNCHANGED <<variant, websocket, listener, enabled_domains, data, nframes>>
    /\ UNCHANGED <<mvars, evars, kvars, svars, rvars, wvars, bvars, nvars, lvars, dvars>>

\* connect(): websockets.connect succeeded.  src goes on to start the
\* listener task and to enable the Page domain; modules returns True.
Connect(c) ==
    /\ CanStart(c)
    /\ websocket = "none"
    /\ ncalls' = ncalls + 1
    /\ last' = c
    /\ websocket' = "open"
    /\ IF variant = "src"
       THEN /\ listener' = "running"
            /\ LET id == get_next_command_id(command_id) IN
               /\ command_id' = id
               /\ pending_commands' = EntryBeforeWrite(pending_commands, id)
               /\ wire' = Append(wire, [id |-> id,
                                        method |-> EnableMethod("Page")])
               /\ calls' = [calls EXCEPT ![c] =
                      [pc |-> "sending", op |-> "connect", arg |-> "Page",
                       id |-> id, sendok |-> TRUE, outcome |-> "none",
                       value |-> 0, cause |-> "none",
                received |-> 0]]
       ELSE /\ calls' = [calls EXCEPT ![c] =
                    [pc |-> "returned", op |-> "connect", arg |-> "none",
                     id |-> 0, sendok |-> FALSE, outcome |-> "True",
                     value |-> 0, cause |-> "none",
                received |-> 0]]
            /\ UNCHANGED <<listener, command_id, pending_commands, wire>>
    /\ UNCHANGED <<variant, enabled_domains, data, nframes>>
    /\ UNCHANGED <<mvars, evars, kvars, svars, rvars, wvars, bvars, nvars, dvars>>
    /\ loops' = IF variant = "src" THEN loops + 1 ELSE loops

\* connect(): websockets.connect raised.
ConnectFail(c) ==
    /\ CanStart(c)
    /\ websocket = "none"
    /\ ncalls' = ncalls + 1
    /\ last' = c
    /\ calls' = [calls EXCEPT ![c] =
            [pc |-> "returned", op |-> "connect", arg |-> "none", id |-> 0,
             sendok |-> FALSE,
             outcome |-> IF variant = "src" THEN "DevToolsException"
                         ELSE "False",
             value |-> 0, cause |-> "connectfail",
                received |-> 0]]
    /\ UNCHANGED <<variant, websocket, listener, command_id,
                   pending_commands, enabled_domains, wire, data,
                   nframes>>
    /\ UNCHANGED <<mvars, evars, kvars, svars, rvars, wvars, bvars, nvars, lvars, dvars>>

\* modules: the application starts listen_for_events after connect().
ListenForEvents ==
    /\ variant = "modules"
    /\ listener = "none"
    /\ websocket # "none"
    /\ listener' = "running"
    /\ UNCHANGED <<variant, websocket, command_id, pending_commands,
                   enabled_domains, calls, wire, data, ncalls, last,
                   nframes>>
    /\ UNCHANGED <<mvars, evars, kvars, svars, rvars, wvars, bvars, nvars, dvars>>
    /\ loops' = loops + 1

\* The await of websocket.send returns, or raises on a closed socket.
SendDone(c) ==
    /\ calls[c].pc = "sending"
    /\ IF calls[c].sendok
       THEN /\ calls' = [calls EXCEPT ![c].pc = "waiting"]
            /\ UNCHANGED <<pending_commands, enabled_domains>>
       ELSE /\ pending_commands' = PopPending(pending_commands, calls[c].id)
            /\ enabled_domains' =
                   IF calls[c].op \in {"enable", "connect"}
                   THEN EnabledAfter(enabled_domains, calls[c].arg, FALSE)
                   ELSE enabled_domains
            /\ calls' = [calls EXCEPT
                   ![c].pc = "returned",
                   ![c].cause = "sendfail",
                   ![c].outcome = OpOutcome(variant, calls[c].op, "sendfail")]
    /\ UNCHANGED <<variant, websocket, listener, command_id, wire, data, ncalls, last, nframes>>
    /\ UNCHANGED <<mvars, evars, kvars, svars, rvars, wvars, bvars, nvars, lvars, dvars>>

\* The body of the dispatch loop for a frame that has an id.
HandleReplyFifo(frame) ==
    LET open == {k \in DOMAIN pending_commands :
                    pending_commands[k].state = "pending"} IN
    IF open # {}
    THEN LET k == CHOOSE x \in open : \A y \in open : x <= y IN
         /\ pending_commands' = [pending_commands EXCEPT ![k] =
                [state |-> IF frame.error THEN "exception" ELSE "result",
                 value |-> frame.id]]
         /\ listener' = listener
    ELSE UNCHANGED <<pending_commands, listener>>

HandleReplyStrict(frame) ==
    IF frame.id \in DOMAIN pending_commands
    THEN IF pending_commands[frame.id].state = "pending"
         THEN /\ pending_commands' = [pending_commands EXCEPT ![frame.id] =
                     [state |-> IF frame.error THEN "exception" ELSE "result",
                      value |-> frame.id]]
                   /\ listener' = listener
         ELSE UNCHANGED <<pending_commands, listener>>
    ELSE /\ listener' = "ended"
         /\ UNCHANGED pending_commands

HandleReplyOverwrite(frame) ==
    IF frame.id \in DOMAIN pending_commands
    THEN /\ pending_commands' = [pending_commands EXCEPT ![frame.id] =
                [state |-> IF frame.error THEN "exception" ELSE "result",
                 value |-> frame.id]]
         /\ listener' = listener
    ELSE UNCHANGED <<pending_commands, listener>>

HandleReply(frame) ==
    IF /\ frame.id \in DOMAIN pending_commands
       /\ pending_commands[frame.id].state = "pending"
    THEN /\ pending_commands' = [pending_commands EXCEPT ![frame.id] =
                [state |-> IF frame.error THEN "exception" ELSE "result",
                 value |-> frame.id]]
         /\ listener' = listener
    ELSE UNCHANGED <<pending_commands, listener>>

\* One iteration of `async for message in self.websocket`.
Dispatch(frame) ==
    /\ listener = "running"
    /\ websocket = "open"
    /\ nframes' = (nframes + 1) % 2
    /\ data' = frame.id
    /\ HandleReply(frame)
    /\ UNCHANGED <<variant, websocket, command_id, enabled_domains, calls,
                   wire, ncalls, last>>
    /\ UNCHANGED <<mvars, evars, kvars, svars, rvars, wvars, bvars, nvars, lvars, dvars>>

\* What the expiry of the timer of one wait_for does to the futures: the
\* awaited one is cancelled.
CancelledByTimeoutNever(p, id) == p
CancelledByTimeoutAll(p, id) ==
    [k \in DOMAIN p |-> IF p[k].state = "pending"
                        THEN [state |-> "cancelled", value |-> 0] ELSE p[k]]
CancelledByTimeout(p, id) ==
    [p EXCEPT ![id] = [state |-> "cancelled", value |-> 0]]

\* The timer of asyncio.wait_for expires: the awaited future is cancelled.
Timeout(c) ==
    /\ calls[c].pc = "waiting"
    /\ pending_commands[calls[c].id].state = "pending"
    /\ pending_commands' = CancelledByTimeout(pending_commands, calls[c].id)
    /\ UNCHANGED <<variant, websocket, listener, command_id, enabled_domains,
                   calls, wire, data, ncalls, last, nframes>>
    /\ UNCHANGED <<mvars, evars, kvars, svars, rvars, wvars, bvars, nvars, lvars, dvars>>

\* The caller resumes from wait_for and leaves send_command.
Resume(c) ==
    /\ calls[c].pc = "waiting"
    /\ pending_commands[calls[c].id].state # "pending"
    /\ LET fut == pending_commands[calls[c].id]
           cause == CASE fut.state = "result" -> "reply"
                      [] fut.state = "exception" -> "error"
                      [] OTHER -> "timeout"
       IN /\ pending_commands' = PopPending(pending_commands, calls[c].id)
          /\ enabled_domains' =
                 IF calls[c].op \in {"enable", "connect"}
                 THEN EnabledAfter(enabled_domains, calls[c].arg,
                                   cause = "reply")
                 ELSE enabled_domains
          /\ calls' = [calls EXCEPT
                 ![c].pc = "returned",
                 ![c].cause = cause,
                 ![c].value = fut.value,
                 ![c].received = Carried(variant, cause, fut.value),
                 ![c].outcome = OpOutcome(variant, calls[c].op, cause)]
    /\ UNCHANGED <<variant, websocket, listener, command_id, wire, data, ncalls, last, nframes>>
    /\ UNCHANGED <<mvars, evars, kvars, svars, rvars, wvars, bvars, nvars, lvars, dvars>>

\* disconnect(): `await self.websocket.close()`.
Disconnect ==
    /\ websocket = "open"
    /\ websocket' = "closed"
    /\ UNCHANGED <<variant, listener, command_id, pending_commands,
                   enabled_domains, calls, wire, data, ncalls, last,
                   nframes>>
    /\ UNCHANGED <<mvars, evars, kvars, svars, rvars, wvars, bvars, nvars, lvars, dvars>>

\* The peer closes the socket, or the transport fails.
SocketLost ==
    /\ websocket = "open"
    /\ websocket' = "closed"
    /\ UNCHANGED <<variant, listener, command_id, pending_commands,
                   enabled_domains, calls, wire, data, ncalls, last,
                   nframes>>
    /\ UNCHANGED <<mvars, evars, kvars, svars, rvars, wvars, bvars, nvars, lvars, dvars>>

\* listen_for_events leaves its `async for`: ConnectionClosed or another
\* error is logged and the coroutine returns.
ListenerEnd ==
    /\ listener = "running"
    /\ websocket = "closed"
    /\ listener' = "ended"
    /\ UNCHANGED <<variant, websocket, command_id, pending_commands,
                   enabled_domains, calls, wire, data, ncalls, last,
                   nframes>>
    /\ UNCHANGED <<mvars, evars, kvars, svars, rvars, wvars, bvars, nvars, dvars>>
    /\ loops' = loops - 1

Next ==
    \/ \E c \in Callers, m \in Methods : SendCommand(c, m)
    \/ \E c \in Callers, d \in Domains : EnableDomain(c, d)
    \/ \E c \in Callers : Connect(c)
    \/ \E c \in Callers : ConnectFail(c)
    \/ ListenForEvents
    \/ \E c \in Callers : SendDone(c)
    \/ \E f \in Frames : Dispatch(f)
    \/ \E c \in Callers : Timeout(c)
    \/ \E c \in Callers : Resume(c)
    \/ Disconnect
    \/ SocketLost
    \/ ListenerEnd

Spec == Init /\ [][Next]_vars

\* The client under its scheduling: the event loop resumes a task whose
\* awaited socket write or future is done, and the timer of every wait_for
\* fires (send_command always passes a timeout, 30.0 by default). Frames
\* are taken among the replies to commands that are outstanding.
NextLive ==
    \/ \E c \in Callers, m \in Methods : SendCommand(c, m)
    \/ \E c \in Callers : Connect(c)
    \/ ListenForEvents
    \/ \E c \in Callers : SendDone(c)
    \/ \E f \in Frames : f.id \in DOMAIN pending_commands /\ Dispatch(f)
    \/ \E c \in Callers : Timeout(c)
    \/ \E c \in Callers : Resume(c)
    \/ SocketLost
    \/ ListenerEnd

Fairness ==
    \A c \in Callers :
        /\ WF_vars(SendDone(c))
        /\ WF_vars(Timeout(c))
        /\ WF_vars(Resume(c))

SpecLive == Init /\ [][NextLive]_vars /\ Fairness

\* ------------------------------------------ the public operations, freely
\* connect() on a client that already has a socket: nothing in connect()
\* looks at the socket or at the task it started before. src starts a new
\* listen_for_events task and enables Page if that is still to be done.
ConnectAgain(c) ==
    /\ CanStart(c)
    /\ websocket # "none"
    /\ variant = "src" => loops < MaxLoops
    /\ ncalls' = ncalls + 1
    /\ last' = c
    /\ websocket' = "open"
    /\ IF variant = "src"
       THEN /\ listener' = "running"
            /\ loops' = loops + 1
            /\ IF IsEnabled("Page")
               THEN /\ calls' = [calls EXCEPT ![c] =
                           [pc |-> "returned", op |-> "connect",
                            arg |-> "Page", id |-> 0, sendok |-> FALSE,
                            outcome |-> "True", value |-> 0,
                            cause |-> "cached", received |-> 0]]
                    /\ UNCHANGED <<command_id, pending_commands, wire>>
               ELSE LET id == get_next_command_id(command_id) IN
                    /\ command_id' = id
                    /\ pending_commands' =
                           EntryBeforeWrite(pending_commands, id)
                    /\ wire' = Append(wire, [id |-> id,
                                     method |-> EnableMethod("Page")])
                    /\ calls' = [calls EXCEPT ![c] =
                           [pc |-> "sending", op |-> "connect",
                            arg |-> "Page", id |-> id, sendok |-> TRUE,
                            outcome |-> "none", value |-> 0,
                            cause |-> "none", received |-> 0]]
       ELSE /\ calls' = [calls EXCEPT ![c] =
                    [pc |-> "returned", op |-> "connect", arg |-> "none",
                     id |-> 0, sendok |-> FALSE, outcome |-> "True",
                     value |-> 0, cause |-> "none", received |-> 0]]
            /\ UNCHANGED <<listener, loops, command_id, pending_commands,
                           wire>>
    /\ UNCHANGED <<variant, enabled_domains, data, nframes>>
    /\ UNCHANGED <<mvars, evars, kvars, svars, rvars, wvars, bvars, nvars, dvars>>

\* listen_for_events() called while a loop is running: its only guard is
\* `if not self.websocket`.
ListenAgain ==
    /\ websocket # "none"
    /\ loops >= 1
    /\ loops < MaxLoops
    /\ loops' = loops + 1
    /\ listener' = "running"
    /\ UNCHANGED <<variant, websocket, command_id, pending_commands,
                   enabled_domains, calls, wire, data, ncalls, last,
                   nframes>>
    /\ UNCHANGED <<mvars, evars, kvars, svars, rvars, wvars, bvars, nvars, dvars>>

\* One of the running loops leaves its `async for`: the socket is closed,
\* or the library refuses a second reader of the same socket.
LoopEnds ==
    /\ loops >= 1
    /\ websocket = "closed" \/ loops > 1
    /\ loops' = loops - 1
    /\ listener' = IF loops' = 0 THEN "ended" ELSE "running"
    /\ UNCHANGED <<variant, websocket, command_id, pending_commands,
                   enabled_domains, calls, wire, data, ncalls, last,
                   nframes>>
    /\ UNCHANGED <<mvars, evars, kvars, svars, rvars, wvars, bvars, nvars, dvars>>

NextLoops ==
    \/ \E c \in Callers : Connect(c)
    \/ \E c \in Callers : ConnectAgain(c)
    \/ ListenForEvents
    \/ ListenAgain
    \/ \E c \in Callers : SendDone(c)
    \/ \E f \in Frames : f.id \in DOMAIN pending_commands /\ Dispatch(f)
    \/ \E c \in Callers : Timeout(c)
    \/ \E c \in Callers : Resume(c)
    \/ Disconnect
    \/ LoopEnds

SpecLoops == Init /\ [][NextLoops]_vars

\* ------------------------------------------------------ collector managers
\* The registration order: src/main.py registers the collectors one by one,
\* the modules manager registers its defaults in its constructor.
Registry(v) ==
    IF v = "src"
    THEN <<"PaintCollector", "NavigationCollector",
           "PerformanceMetricsCollector", "MemoryCollector",
           "NetworkCollector">>
    ELSE <<"PerformanceMetricsCollector", "PaintCollector",
           "NavigationCollector", "MemoryCollector", "NetworkCollector">>

Registered(v) == SubSeq(Registry(v), 1, NumCollectors)

Names(reg) == {reg[i] : i \in 1..Len(reg)}

\* get_required_domains() of the modules collectors
RequiredDomains(name) ==
    CASE name = "PerformanceMetricsCollector" -> {"Performance"}
      [] name = "PaintCollector" -> {"Performance"}
      [] name = "NavigationCollector" -> {"Page"}
      [] name = "MemoryCollector" -> {"Runtime"}
      [] name = "NetworkCollector" -> {"Network"}
      [] OTHER -> {}

\* BaseCollector.__init__: src collectors start disabled, modules enabled
InitiallyEnabled(v) == v = "modules"

\* What a collector's setup() can do, seen from the manager.
SetupOutcomes == {"ok", "false", "raise"}

\* Whether the manager's setup loop goes on after a setup() that succeeded
\* or not: src returns False at the first failure, modules records it.
SetupContinuesShort(v, success) == success
SetupContinues(v, success) == IF v = "src" THEN success ELSE TRUE

\* Which collectors the setup loop calls setup() on.
SetupSelects(v, name) == IF v = "src" THEN TRUE ELSE enabled[name]

\* The first position from i on whose collector the setup loop selects.
RECURSIVE NextSelected(_, _)
NextSelected(v, i) ==
    IF i > Len(collectors) THEN i
    ELSE IF SetupSelects(v, collectors[i]) THEN i
    ELSE NextSelected(v, i + 1)

\* all(success for _, success in setup_results)
AllSuccess(results) == \A i \in 1..Len(results) : results[i][2]

\* A session: the client is connected and its dispatch loop runs, the
\* collectors are registered, and the manager has been constructed.
InitManager ==
    /\ variant \in Variants
    /\ websocket = "open"
    /\ listener = "running"
    /\ command_id = 0
    /\ pending_commands = <<>>
    /\ enabled_domains = {}
    /\ calls = [c \in Callers |-> IdleCall]
    /\ wire = <<>>
    /\ data = 0
    /\ ncalls = 0
    /\ last = "none"
    /\ nframes = 0
    /\ collectors = Registered(variant)
    /\ enabled = [n \in Names(Registered(variant)) |->
                     InitiallyEnabled(variant)]
    /\ mpc = "idle"
    /\ idx = 0
    /\ required = {}
    /\ setup_results = <<>>
    /\ setup_log = <<>>
    /\ retval = "none"
    /\ collected_data = <<>>
    /\ collection_results = <<>>
    /\ summary = NoSummary
    /\ NoEvents
    /\ NoOperation
    /\ NoService
    /\ NoRegistrations
    /\ NoNetworkEvents
    /\ NoneDropped
    /\ NoNavigation
    /\ InitialLoops
    /\ NoCollected

\* What a collector's collect() can do, seen from the manager: return a
\* result, return a result whose error is set, or raise.
CollectOutcomes == {"result", "error_result", "raise"}

\* What client.enable_domain can do, seen from the manager.
EnableOutcomes == {"ok", "false", "raise"}

\* Whether an exception of a collector or of enable_domain leaves the
\* manager's operation: each call is wrapped in `try ... except Exception`.
ManagerPropagatesRaise(op, r) == r = "raise"
ManagerPropagates(op, r) == FALSE

\* Which collectors collect_all_data calls collect() on.
CollectSelectsAll(name) == TRUE
CollectSelects(name) == enabled[name]

\* Whether the collect loop goes on after a collect() that raised or not.
CollectContinuesShort(success) == success
CollectContinues(success) == TRUE

\* The first position from i on whose collector collect_all_data selects.
RECURSIVE NextCollected(_)
NextCollected(i) ==
    IF i > Len(collectors) THEN i
    ELSE IF CollectSelects(collectors[i]) THEN i
    ELSE NextCollected(i + 1)

\* The entry the manager stores for a collect() that ended with r.
DataEntry(r) == IF r = "raise" THEN "error_entry" ELSE r

CountResults(results, success) ==
    Cardinality({i \in 1..Len(results) : results[i][2] = success})

\* The "summary" dict of collect_all_data.
Summarize(results) ==
    [total |-> Len(collectors),
     enabled |-> Cardinality({n \in Names(collectors) : enabled[n]}),
     successful |-> CountResults(results, TRUE),
     failed |-> CountResults(results, FALSE)]

\* The manager is inside none of its operations.
Quiescent == mpc \in {"idle", "done", "collected"}

\* The caller goes on: what the last operation returned, and the locals of
\* that operation, are gone.
ForgetReturned ==
    /\ retval' = "none"
    /\ summary' = NoSummary
    /\ collected_data' = <<>>
    /\ collection_results' = <<>>
    /\ setup_results' = <<>>
    /\ setup_log' = <<>>

\* enable_collector(name)
EnableCollector(name) ==
    /\ Quiescent
    /\ name \in Names(collectors)
    /\ enabled' = [enabled EXCEPT ![name] = TRUE]
    /\ mpc' = "idle"
    /\ ForgetReturned
    /\ UNCHANGED <<svars, rvars, wvars, bvars, nvars, lvars, dvars, kvars, evars, cvars, collectors, idx, required>>

\* disable_collector(name)
DisableCollector(name) ==
    /\ Quiescent
    /\ name \in Names(collectors)
    /\ enabled' = [enabled EXCEPT ![name] = FALSE]
    /\ mpc' = "idle"
    /\ ForgetReturned
    /\ UNCHANGED <<svars, rvars, wvars, bvars, nvars, lvars, dvars, kvars, evars, cvars, collectors, idx, required>>

\* setup_all_collectors up to its first await.
SetupAllBegin ==
    /\ Quiescent
    /\ setup_log' = <<>>
    /\ setup_results' = <<>>
    /\ collection_results' = <<>>
    /\ collected_data' = <<>>
    /\ summary' = NoSummary
    /\ LET req == IF variant = "src" THEN {}
                  ELSE UNION {RequiredDomains(n) :
                                n \in {m \in Names(collectors) : enabled[m]}}
           first == NextSelected(variant, 1)
       IN /\ command_id + Cardinality(req \ enabled_domains) <= MaxCalls
          /\ required' = req
          /\ idx' = first
          /\ IF req # {}
             THEN mpc' = "domains" /\ retval' = "none"
             ELSE IF first <= Len(collectors)
             THEN mpc' = "setup" /\ retval' = "none"
             ELSE mpc' = "done" /\ retval' = "TRUE"
    /\ UNCHANGED <<rvars, wvars, bvars, nvars, lvars, dvars, kvars, evars, cvars, collectors, enabled>>

\* modules: `await self.client.enable_domain(domain)` for one required
\* domain ends with r.
ManagerEnableDomain(d, r) ==
    /\ mpc = "domains"
    /\ d \in required
    /\ required' = required \ {d}
    /\ IF IsEnabled(d)
       THEN UNCHANGED <<command_id, wire, enabled_domains>>
       ELSE /\ command_id' = get_next_command_id(command_id)
            /\ wire' = Append(wire, [id |-> command_id',
                                     method |-> EnableMethod(d)])
            /\ enabled_domains' = EnabledAfter(enabled_domains, d, r = "ok")
    /\ IF ManagerPropagates("domain", r)
       THEN mpc' = "raised" /\ retval' = "none"
       ELSE IF required' # {}
       THEN mpc' = "domains" /\ retval' = "none"
       ELSE IF idx <= Len(collectors)
       THEN mpc' = "setup" /\ retval' = "none"
       ELSE mpc' = "done" /\ retval' = "TRUE"
    /\ UNCHANGED <<svars, rvars, wvars, bvars, nvars, lvars, dvars, kvars, evars, variant, websocket, listener, pending_commands, calls,
                   data, ncalls, last, nframes, collectors, enabled, idx,
                   setup_results, setup_log, collected_data,
                   collection_results, summary>>

\* One iteration of the setup loop: `await collector.setup()` ends with r.
SetupStep(r) ==
    /\ mpc = "setup"
    /\ idx <= Len(collectors)
    /\ LET name == collectors[idx]
           success == (r = "ok")
           results == IF variant = "src" THEN setup_results
                      ELSE Append(setup_results, <<name, success>>)
           next == NextSelected(variant, idx + 1)
       IN /\ setup_log' = Append(setup_log, <<name, r>>)
          /\ setup_results' = results
          /\ enabled' = IF variant = "src" /\ success
                        THEN [enabled EXCEPT ![name] = TRUE]
                        ELSE enabled
          /\ IF ManagerPropagates("setup", r)
             THEN /\ mpc' = "raised"
                  /\ retval' = "none"
                  /\ idx' = idx
             ELSE IF ~SetupContinues(variant, success)
             THEN /\ mpc' = "done"
                  /\ retval' = "FALSE"
                  /\ idx' = idx
             ELSE IF next <= Len(collectors)
             THEN /\ mpc' = "setup"
                  /\ retval' = "none"
                  /\ idx' = next
             ELSE /\ mpc' = "done"
                  /\ idx' = next
                  /\ retval' = IF variant = "src" \/ AllSuccess(results)
                               THEN "TRUE" ELSE "FALSE"
    /\ UNCHANGED <<svars, rvars, wvars, bvars, nvars, lvars, dvars, kvars, evars, cvars, collectors, required, collected_data,
                   collection_results, summary>>

\* collect_all_data up to its first await.
CollectAllBegin ==
    /\ Quiescent
    /\ collected_data' = <<>>
    /\ collection_results' = <<>>
    /\ setup_log' = <<>>
    /\ setup_results' = <<>>
    /\ retval' = "none"
    /\ LET first == NextCollected(1)
       IN /\ idx' = first
          /\ IF first <= Len(collectors)
             THEN mpc' = "collect" /\ summary' = NoSummary
             ELSE mpc' = "collected" /\ summary' = Summarize(<<>>)
    /\ UNCHANGED <<rvars, wvars, bvars, nvars, lvars, dvars, kvars, evars, cvars, collectors, enabled, required>>

\* One iteration of the collect loop: `await collector.collect()` ends with r.
CollectStep(r) ==
    /\ mpc = "collect"
    /\ idx <= Len(collectors)
    /\ LET name == collectors[idx]
           success == (r # "raise")
           results == Append(collection_results, <<name, success>>)
           next == NextCollected(idx + 1)
       IN /\ collection_results' = results
          /\ collected_data' =
                 [n \in DOMAIN collected_data \cup {name} |->
                     IF n = name THEN DataEntry(r) ELSE collected_data[n]]
          /\ IF ManagerPropagates("collect", r)
             THEN /\ mpc' = "raised"
                  /\ summary' = NoSummary
                  /\ idx' = idx
             ELSE IF CollectContinues(success) /\ next <= Len(collectors)
             THEN /\ mpc' = "collect"
                  /\ summary' = NoSummary
                  /\ idx' = next
             ELSE /\ mpc' = "collected"
                  /\ idx' = next
                  /\ summary' = Summarize(results)
    /\ UNCHANGED <<svars, rvars, wvars, bvars, nvars, lvars, dvars, kvars, evars, cvars, collectors, enabled, required, setup_results,
                   setup_log, retval>>

NextManager ==
    \/ \E n \in Names(collectors) : EnableCollector(n)
    \/ \E n \in Names(collectors) : DisableCollector(n)
    \/ SetupAllBegin /\ UNCHANGED svars
    \/ \E d \in required, r \in EnableOutcomes : ManagerEnableDomain(d, r)
    \/ \E r \in SetupOutcomes : SetupStep(r)
    \/ CollectAllBegin /\ UNCHANGED svars
    \/ \E r \in CollectOutcomes : CollectStep(r)

SpecManager == InitManager /\ [][NextManager]_vars

\* ----------------------------------------------- events and navigation
LoadEvent == "Page.loadEventFired"

\* The task that runs the application's navigate_to calls, one at a time.
Navigator == "c1"

\* What a handler registered by a collector or by the application does when
\* it is called: return, or raise.
HandlerKinds == {"plain", "raising"}

AllHandlers ==
    UNION {{event_handlers[m][i] : i \in 1..Len(event_handlers[m])} :
              m \in EventMethods}

\* A handler is named by the rank of its registration.
NewHandler(m, kind) ==
    [id |-> Cardinality(AllHandlers) + 1, kind |-> kind, method |-> m]

\* add_handler: self.event_handlers[event_name].append(handler)
AddHandlerFront(table, m, h) == [table EXCEPT ![m] = <<h>> \o @]
AddHandler(table, m, h) == [table EXCEPT ![m] = Append(@, h)]

\* on_load_event: whether it calls set_result(True) on a future in `state`,
\* `if not self._page_loaded.done()`.  set_result on a future that is done
\* raises InvalidStateError.
OnLoadEventSetsAlways(state) == TRUE
OnLoadEventSets(state) == state = "pending"

\* Whether the loop over the handlers of an event goes on after handler h:
\* each call sits in its own `try ... except Exception`.
HandlerLoopStopsAtRaise(h) == h.kind # "raising"
HandlerLoopContinues(h) == TRUE

\* The handlers `for handler in self.event_handlers[method]` calls.
RECURSIVE InvokedHandlers(_)
InvokedHandlers(hs) ==
    IF hs = <<>> THEN <<>>
    ELSE <<Head(hs).id>> \o
         (IF HandlerLoopContinues(Head(hs)) THEN InvokedHandlers(Tail(hs))
          ELSE <<>>)

\* Where navigate_to registers on_load_event: before it awaits send_command.
RegisteredAfterReply(stage) == stage = "reply"
RegisteredAt(stage) == stage = "begin"

\* The running navigate_to call has not yet seen its timer fire.
NavigationOpen ==
    /\ calls[Navigator].op = "navigate"
    /\ calls[Navigator].pc \in {"sending", "waiting", "loadwait"}
    /\ calls[Navigator].cause # "loadtimeout"

\* A session: connect() has returned True and the dispatch loop runs.
InitEvents ==
    /\ variant \in Variants
    /\ websocket = "open"
    /\ listener = "running"
    /\ command_id = IF variant = "src" THEN 1 ELSE 0
    /\ pending_commands = <<>>
    /\ enabled_domains = IF variant = "src" THEN {"Page"} ELSE {}
    /\ calls = [c \in Callers |->
                  IF c # Navigator THEN IdleCall
                  ELSE IF variant = "src"
                  THEN [pc |-> "returned", op |-> "connect", arg |-> "Page",
                        id |-> 1, sendok |-> TRUE, outcome |-> "True",
                        value |-> 1, cause |-> "reply",
                        received |-> 1]
                  ELSE [pc |-> "returned", op |-> "connect", arg |-> "none",
                        id |-> 0, sendok |-> FALSE, outcome |-> "True",
                        value |-> 0, cause |-> "none",
                        received |-> 0]]
    /\ wire = IF variant = "src"
              THEN <<[id |-> 1, method |-> EnableMethod("Page")]>>
              ELSE <<>>
    /\ data = IF variant = "src" THEN 1 ELSE 0
    /\ ncalls = 1
    /\ last = Navigator
    /\ nframes = IF variant = "src" THEN 1 ELSE 0
    /\ collectors = <<>>
    /\ enabled = <<>>
    /\ mpc = "idle"
    /\ idx = 0
    /\ required = {}
    /\ setup_results = <<>>
    /\ setup_log = <<>>
    /\ retval = "none"
    /\ collected_data = <<>>
    /\ collection_results = <<>>
    /\ summary = NoSummary
    /\ NoEvents
    /\ NoOperation
    /\ NoService
    /\ NoRegistrations
    /\ NoNetworkEvents
    /\ NoneDropped
    /\ NoNavigation
    /\ InitialLoops
    /\ NoCollected

\* add_event_handler(event_name, handler), called by a collector's setup()
\* or by the application, in the task that also calls navigate_to.
AddEventHandler(m, kind) ==
    /\ calls[Navigator].pc \in {"idle", "returned"}
    /\ Cardinality({h \in AllHandlers : h.kind \in HandlerKinds}) < MaxHandlers
    /\ event_handlers' = AddHandler(event_handlers, m, NewHandler(m, kind))
    /\ UNCHANGED <<page_loaded, event, invoked, raised, load_seen>>
    /\ UNCHANGED <<cvars, mvars, kvars, svars, rvars, wvars, bvars, nvars, lvars, dvars>>

\* One iteration of the dispatch loop for a frame that has a method and no
\* id: every handler of the method is called.
DispatchEvent(m) ==
    /\ listener = "running"
    /\ websocket = "open"
    /\ nframes' = (nframes + 1) % 2
    /\ data' = 0
    /\ event' = m
    /\ LET hs == event_handlers[m]
           ids == InvokedHandlers(hs)
           loads == {i \in 1..Len(ids) : hs[i].kind = "on_load_event"}
           after == IF loads # {} /\ OnLoadEventSets(page_loaded)
                       /\ page_loaded = "pending"
                    THEN "result" ELSE page_loaded
           \* the future as the i-th handler finds it
           seen(i) == IF \A j \in loads : i <= j THEN page_loaded ELSE after
       IN /\ invoked' = ids
          /\ page_loaded' = after
          /\ raised' =
                 {hs[i].id : i \in
                    {j \in 1..Len(ids) :
                        \/ hs[j].kind = "raising"
                        \/ /\ hs[j].kind = "on_load_event"
                           /\ OnLoadEventSets(seen(j))
                           /\ seen(j) # "pending"}}
    /\ load_seen' =
           IF m = LoadEvent /\ NavigationOpen /\ load_seen = "no"
           THEN IF calls[Navigator].pc = "loadwait" THEN "waiting"
                ELSE "early"
           ELSE load_seen
    /\ UNCHANGED <<variant, websocket, listener, command_id,
                   pending_commands, enabled_domains, calls, wire, ncalls,
                   last, event_handlers>>
    /\ UNCHANGED <<mvars, kvars, svars, rvars, wvars, bvars, lvars, dvars>>

\* navigate_to from its entry to the await of websocket.send.  src creates
\* the future and registers on_load_event first; modules only sends.
NavigateTo(c) ==
    /\ CanStart(c)
    /\ ncalls' = ncalls + 1
    /\ last' = c
    /\ load_seen' = "no"
    /\ IF variant = "src"
       THEN /\ page_loaded' = "pending"
            /\ event_handlers' =
                   IF RegisteredAt("begin")
                   THEN AddHandler(event_handlers, LoadEvent,
                                   NewHandler(LoadEvent, "on_load_event"))
                   ELSE event_handlers
       ELSE UNCHANGED <<page_loaded, event_handlers>>
    /\ BeginSend(c, "navigate", "Page.navigate", "none")
    /\ UNCHANGED <<variant, websocket, listener, enabled_domains, data,
                   nframes, event, invoked, raised>>
    /\ UNCHANGED <<mvars, kvars, svars, rvars, wvars, bvars, lvars, dvars>>

\* navigate_to resumes from send_command.  A failure, or a reply without
\* frameId, returns False; otherwise modules returns True and src awaits
\* the load future, which returns at once if the future is already done.
NavigateResume(c, hasFrame) ==
    /\ calls[c].pc = "waiting"
    /\ calls[c].op = "navigate"
    /\ pending_commands[calls[c].id].state # "pending"
    /\ LET fut == pending_commands[calls[c].id]
           cause == CASE fut.state = "result" -> "reply"
                      [] fut.state = "exception" -> "error"
                      [] OTHER -> "timeout"
           acked == cause = "reply" /\ hasFrame
       IN /\ pending_commands' = PopPending(pending_commands, calls[c].id)
          /\ event_handlers' =
                 IF variant = "src" /\ RegisteredAt("reply")
                 THEN AddHandler(event_handlers, LoadEvent,
                                 NewHandler(LoadEvent, "on_load_event"))
                 ELSE event_handlers
          /\ calls' = [calls EXCEPT
                 ![c].value = fut.value,
                 ![c].received = Carried(variant, cause, fut.value),
                 ![c].pc = IF acked /\ variant = "src"
                              /\ page_loaded = "pending"
                           THEN "loadwait" ELSE "returned",
                 ![c].cause = IF ~acked
                              THEN (IF cause = "reply" THEN "noframe"
                                    ELSE cause)
                              ELSE IF variant = "src"
                              THEN (IF page_loaded = "pending" THEN "none"
                                    ELSE "loaded")
                              ELSE "reply",
                 ![c].outcome =
                     IF ~acked THEN OpOutcome(variant, "navigate", "error")
                     ELSE IF variant = "src" /\ page_loaded = "pending"
                     THEN "none"
                     ELSE OpOutcome(variant, "navigate", "reply")]
    /\ UNCHANGED <<variant, websocket, listener, command_id, enabled_domains,
                   wire, data, ncalls, last, nframes>>
    /\ UNCHANGED <<page_loaded, event, invoked, raised, load_seen>>
    /\ UNCHANGED <<mvars, kvars, svars, rvars, wvars, bvars, nvars, lvars, dvars>>

\* The timer of `asyncio.wait_for(self._page_loaded, timeout)` expires: the
\* future is cancelled.
LoadTimeout(c) ==
    /\ calls[c].pc = "loadwait"
    /\ page_loaded = "pending"
    /\ page_loaded' = "cancelled"
    /\ calls' = [calls EXCEPT ![c].cause = "loadtimeout"]
    /\ UNCHANGED <<variant, websocket, listener, command_id,
                   pending_commands, enabled_domains, wire, data, ncalls,
                   last, nframes>>
    /\ UNCHANGED <<event_handlers, event, invoked, raised, load_seen>>
    /\ UNCHANGED <<mvars, kvars, svars, rvars, wvars, bvars, nvars, lvars, dvars>>

\* navigate_to resumes from the load wait: True, or False on TimeoutError.
NavigateFinish(c) ==
    /\ calls[c].pc = "loadwait"
    /\ page_loaded # "pending"
    /\ calls' = [calls EXCEPT
           ![c].pc = "returned",
           ![c].cause = IF page_loaded = "result" THEN "loaded"
                        ELSE "loadtimeout",
           ![c].outcome = IF page_loaded = "result" THEN "True"
                          ELSE "False"]
    /\ UNCHANGED <<variant, websocket, listener, command_id,
                   pending_commands, enabled_domains, wire, data, ncalls,
                   last, nframes>>
    /\ UNCHANGED evars
    /\ UNCHANGED <<mvars, kvars, svars, rvars, wvars, bvars, nvars, lvars, dvars>>

NextEvents ==
    \/ \E m \in EventMethods, k \in HandlerKinds : AddEventHandler(m, k)
    \/ \E m \in EventMethods : DispatchEvent(m) /\ UNCHANGED nvars
    \/ NavigateTo(Navigator) /\ UNCHANGED nvars
    \/ SendDone(Navigator)
    \/ \E f \in {x \in Frames : x.id \in DOMAIN pending_commands} : Dispatch(f)
    \/ Timeout(Navigator)
    \/ \E hasFrame \in BOOLEAN : NavigateResume(Navigator, hasFrame)
    \/ LoadTimeout(Navigator)
    \/ NavigateFinish(Navigator)

SpecEvents == InitEvents /\ [][NextEvents]_vars

\* ------------------------------------------------- navigation by navigation
\* The browser sends one Page.loadEventFired for every Page.navigate it was
\* handed, at any later time; the event carries nothing that names the
\* navigation, the model keeps that beside the client's state.

\* navigate_to is called: the call is numbered, and the browser owes a load
\* event if the command is written to an open socket.
NavigateToNumbered ==
    /\ NavigateTo(Navigator)
    /\ nav' = nav + 1
    /\ owed' = IF websocket = "open" THEN owed \cup {nav + 1} ELSE owed
    /\ settled_by' = 0

\* The dispatch loop reads the load event of navigation k.
LoadEventOf(k) ==
    /\ k \in owed
    /\ DispatchEvent(LoadEvent)
    /\ owed' = owed \ {k}
    /\ settled_by' = IF page_loaded = "pending" /\ page_loaded' = "result"
                     THEN k ELSE settled_by
    /\ nav' = nav

\* The frames the loop can make nothing of: text that json.loads rejects,
\* and an object with neither "id" nor "method".
BadFrames == {"notjson", "nomethod"}

\* The dispatch loop after such a frame: JSONDecodeError is caught inside
\* the `async for`, the other frame matches neither branch.
LoopAfterBadFrameUncaught(kind) ==
    IF kind = "notjson" THEN "ended" ELSE "running"
LoopAfterBadFrame(kind) == "running"

\* One iteration of the dispatch loop for such a frame.
DispatchBadFrame(kind) ==
    /\ listener = "running"
    /\ websocket = "open"
    /\ nframes' = (nframes + 1) % 2
    /\ data' = -1
    /\ listener' = LoopAfterBadFrame(kind)
    /\ dropped' = TRUE
    /\ UNCHANGED <<variant, websocket, command_id, pending_commands,
                   enabled_domains, calls, wire, ncalls, last>>
    /\ UNCHANGED <<mvars, evars, kvars, svars, rvars, wvars, nvars, lvars, dvars>>

NextNavigate ==
    \/ NavigateToNumbered
    \/ \E k \in BadFrames : DispatchBadFrame(k)
    \/ \E k \in owed : LoadEventOf(k)
    \/ SendDone(Navigator)
    \/ \E f \in {x \in Frames : x.id \in DOMAIN pending_commands} : Dispatch(f)
    \/ Timeout(Navigator)
    \/ \E hasFrame \in BOOLEAN : NavigateResume(Navigator, hasFrame)
    \/ LoadTimeout(Navigator)
    \/ NavigateFinish(Navigator)
    \/ SocketLost

SpecNavigate == InitEvents /\ [][NextNavigate]_vars

\* ------------------------------------------------- concrete collectors
\* The ways a command a collector issues can end.
CommandCauses == {"reply", "error", "timeout", "sendfail"}

Operations == {"setup", "collect"}

\* What the client method `via` hands to the collector when its command
\* ended by `cause`: a value, an exception, or a falsy value (None, False).
\* src: send_command raises, and so do enable_domain and
\* execute_javascript, which do not catch; get_metrics catches and returns
\* None.  modules: send_command returns None, enable_domain False.
ClientSignal(v, via, cause) ==
    LET r == SendCommandOutcome(v, cause) IN
    IF r = "value" THEN "value"
    ELSE IF via = "get_metrics" \/ r = "None" THEN "falsy"
    ELSE "raise"

\* One command of a collector operation: the client method it goes
\* through, whether the nearest `try` around it belongs to a helper, whose
\* return value the operation ignores, or to the operation itself, and how
\* many of the commands that follow are not issued once this one failed.
Command(cmd, via, catcher, skip) ==
    [cmd |-> cmd, via |-> via, catcher |-> catcher, skip |-> skip]

\* src/src/collectors: the commands of setup() and of collect(), on the
\* path where every reply carries what the collector asks for.
SrcProgram(name, op) ==
    IF name = "PaintCollector"
    THEN IF op = "setup"
         THEN <<Command("Performance.enable", "enable_domain", "operation", 0),
                Command("Performance.enable", "send_command", "helper", 1),
                Command("Performance.setLCPObserver", "send_command",
                        "helper", 0)>>
         ELSE <<Command("Performance.getMetrics", "get_metrics", "helper", 0),
                Command("Performance.getMetrics", "get_metrics", "helper", 0)>>
    ELSE IF op = "setup"
         THEN <<Command("enable", "enable_domain", "operation", 0)>>
         ELSE <<Command("Runtime.evaluate", "execute_javascript",
                        "operation", 0)>>

\* src/modules/collectors
ModulesProgram(name, op) ==
    CASE name = "PerformanceMetricsCollector" ->
            IF op = "setup"
            THEN <<Command("Performance.enable", "enable_domain",
                           "operation", 0),
                   Command("Performance.enable", "send_command",
                           "operation", 0)>>
            ELSE <<Command("Performance.getMetrics", "send_command",
                           "operation", 0)>>
      [] name = "PaintCollector" ->
            IF op = "setup"
            THEN <<Command("Performance.enable", "enable_domain",
                           "operation", 0),
                   Command("Runtime.evaluate", "execute_javascript",
                           "helper", 1),
                   Command("Runtime.evaluate", "execute_javascript",
                           "helper", 0)>>
            ELSE <<Command("Runtime.evaluate", "execute_javascript",
                           "operation", 0),
                   Command("Runtime.evaluate", "execute_javascript",
                           "helper", 0)>>
      [] name = "NetworkCollector" ->
            IF op = "setup"
            THEN <<Command("Network.enable", "enable_domain",
                           "operation", 0)>>
            ELSE <<>>
      [] OTHER ->
            IF op = "setup"
            THEN <<Command("enable", "enable_domain", "operation", 0)>>
            ELSE <<Command("Runtime.evaluate", "execute_javascript",
                           "helper", 0)>>

Program(v, name, op) ==
    IF v = "src" THEN SrcProgram(name, op) ELSE ModulesProgram(name, op)

\* What the operation returns when it ran to its end, and what its own
\* `except Exception` returns.
Success(op) == IF op = "setup" THEN "True" ELSE "result"
Failure(v, name, op) ==
    IF op = "setup" THEN "False"
    ELSE IF v = "modules" /\ name = "NetworkCollector" THEN "result"
    ELSE "error_result"

\* A session: the client is connected and the collectors are constructed.
InitCollectors ==
    /\ variant \in Variants
    /\ websocket = "open"
    /\ listener = "running"
    /\ command_id = 0
    /\ pending_commands = <<>>
    /\ enabled_domains = {}
    /\ calls = [c \in Callers |-> IdleCall]
    /\ wire = <<>>
    /\ data = 0
    /\ ncalls = 0
    /\ last = "none"
    /\ nframes = 0
    /\ collectors = Registry(variant)
    /\ enabled = [n \in Names(Registry(variant)) |->
                     InitiallyEnabled(variant)]
    /\ mpc = "idle"
    /\ idx = 0
    /\ required = {}
    /\ setup_results = <<>>
    /\ setup_log = <<>>
    /\ retval = "none"
    /\ collected_data = <<>>
    /\ collection_results = <<>>
    /\ summary = NoSummary
    /\ NoEvents
    /\ NoOperation
    /\ NoService
    /\ NoRegistrations
    /\ NoNetworkEvents
    /\ NoneDropped
    /\ NoNavigation
    /\ InitialLoops
    /\ NoCollected

\* setup() or collect() of a collector, up to its first await.
OperationBegin(name, op) ==
    /\ step = 0
    /\ name \in Names(collectors)
    /\ subject' = name
    /\ operation' = op
    /\ failures' = {}
    /\ IF Program(variant, name, op) = <<>>
       THEN step' = 0 /\ returned' = Success(op)
       ELSE step' = 1 /\ returned' = "none"
    /\ UNCHANGED <<cvars, mvars, evars, svars, rvars, wvars, bvars, nvars, lvars, dvars>>

\* The command the operation awaits ends by `cause`.
OperationCommand(cause) ==
    /\ step > 0
    /\ LET prog == Program(variant, subject, operation)
           cmd == prog[step]
           signal == ClientSignal(variant, cmd.via, cause)
           next == IF signal = "value" THEN step + 1
                   ELSE step + 1 + cmd.skip
       IN /\ failures' = IF signal = "value" THEN failures
                         ELSE failures \cup {<<step, cause>>}
          /\ IF signal = "raise" /\ cmd.catcher = "operation"
             THEN /\ step' = 0
                  /\ returned' = Failure(variant, subject, operation)
             ELSE IF next > Len(prog)
             THEN /\ step' = 0
                  /\ returned' = Success(operation)
             ELSE /\ step' = next
                  /\ returned' = "none"
    /\ UNCHANGED <<subject, operation>>
    /\ UNCHANGED <<cvars, mvars, evars, svars, rvars, wvars, bvars, nvars, lvars, dvars>>

NextCollectors ==
    \/ \E n \in Names(collectors), op \in Operations : OperationBegin(n, op)
    \/ \E cause \in CommandCauses : OperationCommand(cause)

SpecCollectors == InitCollectors /\ [][NextCollectors]_vars

\* ------------------------------------------------------ claims C1 .. C8
Active(c) == calls[c].pc \in {"sending", "waiting"}
Failed(c) ==
    /\ calls[c].pc = "returned"
    /\ calls[c].cause \in {"error", "timeout", "sendfail"}

\* The step in which task c enters the operation `op`.
Starts(c, op) ==
    /\ ncalls' = ncalls + 1
    /\ last' = c
    /\ calls'[c].op = op

\* C1: the ids of the commands handed to the socket are strictly increasing,
\* and no id a call holds or held exceeds the counter, so an id is never
\* allocated twice, whatever became of the earlier commands.
IdsStrictlyIncreasing ==
    /\ \A i, j \in 1..Len(wire) : i < j => wire[i].id < wire[j].id
    /\ \A i \in 1..Len(wire) : wire[i].id <= command_id
    /\ \A c \in Callers : calls[c].id <= command_id
    /\ \A c, o \in Callers :
          (c # o /\ calls[c].id # 0) => calls[c].id # calls[o].id

IdsAfterTimeoutReached ==
    /\ Len(wire) >= 2
    /\ \E c \in Callers :
          /\ Failed(c)
          /\ calls[c].cause = "timeout"
          /\ calls[c].id < wire[Len(wire)].id

\* C2: a call that ends by a reply ends by the reply that carries its own id,
\* and a settled future holds the reply of its own id, in any arrival order.
ReplyCorrelatedById ==
    /\ \A c \in Callers :
          (calls[c].pc = "returned" /\ calls[c].cause \in {"reply", "error"})
             => calls[c].value = calls[c].id
    /\ \A k \in DOMAIN pending_commands :
          pending_commands[k].state \in {"result", "exception"}
             => pending_commands[k].value = k

\* B, sent after A, has completed with its reply and A is still unsettled.
LaterReplyFirstReached ==
    \E a, b \in Callers :
        /\ calls[a].pc = "waiting"
        /\ pending_commands[calls[a].id].state = "pending"
        /\ calls[b].pc = "returned"
        /\ calls[b].cause = "reply"
        /\ calls[b].id > calls[a].id
        /\ calls[b].value = calls[b].id

\* C3: a dispatch-loop iteration whose frame has an id without an entry in
\* pending_commands changes neither the table nor any call, and the loop
\* and the socket stay as they were.
UnknownReplyDiscarded ==
    [][(nframes' # nframes /\ data' \notin DOMAIN pending_commands)
          => /\ pending_commands' = pending_commands
             /\ calls' = calls
             /\ enabled_domains' = enabled_domains
             /\ listener' = listener
             /\ websocket' = websocket]_vars

UnknownReplyReached ==
    /\ data > command_id
    /\ listener = "running"
    /\ \E c \in Callers :
          /\ calls[c].pc = "waiting"
          /\ pending_commands[calls[c].id].state = "pending"

\* C4: pending_commands holds exactly the entries of the calls that are
\* inside send_command: one per call, and none of a call that has left.
NoPendingLeak ==
    /\ \A c \in Callers : Active(c) => calls[c].id \in DOMAIN pending_commands
    /\ \A c \in Callers :
          calls[c].pc = "returned" => calls[c].id \notin DOMAIN pending_commands
    /\ Cardinality(DOMAIN pending_commands)
          = Cardinality({c \in Callers : Active(c)})

AllExitPathsReached ==
    /\ pending_commands = <<>>
    /\ \E a, b \in Callers :
          /\ Failed(a) /\ calls[a].cause = "timeout" /\ calls[a].id # 0
          /\ Failed(b) /\ calls[b].cause = "sendfail" /\ calls[b].id # 0

\* C5: a send_command call of the src client that ends because its reply
\* never arrived raises TimeoutException.
TimeoutRaisesTimeoutException ==
    \A c \in Callers :
        (/\ variant = "src"
         /\ calls[c].pc = "returned"
         /\ calls[c].op = "send"
         /\ calls[c].cause = "timeout")
           => calls[c].outcome = "TimeoutException"

\* C6: once the dispatch loop has terminated, no caller is left suspended on
\* an unsettled entry and pending_commands holds no unsettled entry.
CloseFailsAllPending ==
    listener = "ended" =>
        \A c \in Callers :
            ~(/\ calls[c].pc = "waiting"
              /\ pending_commands[calls[c].id].state = "pending")

\* C7: an enable_domain(d) call started when d is in enabled_domains returns
\* True at once: no id is allocated and nothing is handed to the socket.
EnableIdempotent ==
    [][\A c \in Callers :
          (Starts(c, "enable") /\ calls'[c].arg \in enabled_domains)
             => /\ wire' = wire
                /\ command_id' = command_id
                /\ pending_commands' = pending_commands
                /\ calls'[c].pc = "returned"
                /\ calls'[c].outcome = "True"]_vars

EnableMethodCount(d) ==
    Cardinality({i \in 1..Len(wire) : wire[i].method = EnableMethod(d)})

SecondEnableCachedReached ==
    \E c \in Callers :
        /\ calls[c].pc = "returned"
        /\ calls[c].op = "enable"
        /\ calls[c].cause = "cached"
        /\ calls[c].outcome = "True"
        /\ EnableMethodCount(calls[c].arg) = 1

\* C8: a failing enable_domain(d) leaves enabled_domains as it was, and an
\* enable_domain(d) call started on a connected client while d is not in
\* enabled_domains allocates a new id and hands a new d.enable command to
\* the socket (the write itself fails if the socket is closed).
EnableFailureNotCached ==
    [][\A c \in Callers :
          /\ (/\ Active(c)
              /\ calls[c].op \in {"enable", "connect"}
              /\ calls'[c].pc = "returned"
              /\ calls'[c].cause \in {"error", "timeout", "sendfail"})
                => /\ enabled_domains' = enabled_domains
                   /\ calls'[c].outcome # "True"
          /\ (/\ Starts(c, "enable")
              /\ calls'[c].arg \notin enabled_domains
              /\ websocket # "none")
                => /\ command_id' = command_id + 1
                   /\ calls'[c].pc = "sending"
                   /\ calls'[c].id = command_id'
                   /\ websocket = "open" =>
                         wire' = Append(wire,
                             [id |-> command_id',
                              method |-> EnableMethod(calls'[c].arg)])]_vars

EnableRetriedReached ==
    \E c, o \in Callers :
        /\ Failed(o)
        /\ calls[o].op = "enable"
        /\ calls[o].id # 0
        /\ Active(c)
        /\ calls[c].op = "enable"
        /\ calls[c].arg = calls[o].arg
        /\ calls[c].id > calls[o].id
        /\ calls[c].arg \notin enabled_domains
        /\ \E i \in 1..Len(wire) :
              wire[i] = [id |-> calls[c].id,
                         method |-> EnableMethod(calls[c].arg)]

\* ---------------------------------------------------- claims C9 .. C10
SetupCalls(name) ==
    Cardinality({i \in 1..Len(setup_log) : setup_log[i][1] = name})

SetupFailed == \E i \in 1..Len(setup_log) : setup_log[i][2] # "ok"

\* C9: when setup_all_collectors of the src manager has returned, setup()
\* was invoked exactly once on every registered collector.
SrcSetupAllNoShortCircuit ==
    (variant = "src" /\ mpc = "done") =>
        \A n \in Names(collectors) : SetupCalls(n) = 1

\* C10: when setup_all_collectors of the modules manager has returned,
\* setup() was invoked exactly once on every enabled collector and on no
\* other, and it returned False exactly if one of these setup() calls
\* returned False or raised.
ModulesSetupAllNoShortCircuit ==
    (variant = "modules" /\ mpc = "done") =>
        /\ \A n \in Names(collectors) :
              SetupCalls(n) = IF enabled[n] THEN 1 ELSE 0
        /\ (retval = "FALSE") <=> SetupFailed
        /\ retval \in {"TRUE", "FALSE"}

ModulesFirstSetupFailsReached ==
    /\ variant = "modules"
    /\ mpc = "done"
    /\ retval = "FALSE"
    /\ \A n \in Names(collectors) : enabled[n]
    /\ Len(setup_log) = Len(collectors)
    /\ Len(setup_log) >= 3
    /\ setup_log[1][2] # "ok"
    /\ \A i \in 2..Len(setup_log) : setup_log[i][2] = "ok"

\* ---------------------------------------------------- claims C11 .. C20
EnabledNames == {n \in Names(collectors) : enabled[n]}

ErrorEntries == {n \in DOMAIN collected_data : collected_data[n] = "error_entry"}

\* C11: when collect_all_data has returned, the data map holds an entry for
\* every enabled collector, failed_collections is the number of collectors
\* whose collect() raised (their entries carry the error), and
\* successful_collections is the number of the other enabled collectors.
CollectAllIsolatesFailures ==
    mpc = "collected" =>
        /\ DOMAIN collected_data = EnabledNames
        /\ summary.failed = Cardinality(ErrorEntries)
        /\ summary.successful = Cardinality(EnabledNames) - summary.failed
        /\ \A i \in 1..Len(collection_results) :
              collection_results[i][2] =
                 (collected_data[collection_results[i][1]] # "error_entry")

FirstCollectRaisesReached ==
    /\ mpc = "collected"
    /\ Cardinality(EnabledNames) >= 3
    /\ Len(collection_results) = Cardinality(EnabledNames)
    /\ ~collection_results[1][2]
    /\ \A i \in 2..Len(collection_results) : collection_results[i][2]
    /\ summary.failed = 1
    /\ summary.successful = Cardinality(EnabledNames) - 1

\* C12: while and after collect_all_data runs, a collector whose flag is
\* false has no entry in the data map and its collect() is not invoked; the
\* summary counts it in total_collectors only.
DisabledCollectorExcluded ==
    /\ mpc \in {"collect", "collected"} =>
          \A n \in Names(collectors) \ EnabledNames :
              /\ n \notin DOMAIN collected_data
              /\ \A i \in 1..Len(collection_results) :
                    collection_results[i][1] # n
    /\ mpc = "collected" =>
          /\ summary.total = Len(collectors)
          /\ summary.enabled = Cardinality(EnabledNames)
          /\ summary.successful + summary.failed = Cardinality(EnabledNames)

DisabledCollectorSkippedReached ==
    /\ variant = "modules"
    /\ mpc = "collected"
    /\ \E n \in Names(collectors) :
          /\ ~enabled[n]
          /\ n \notin DOMAIN collected_data
    /\ Cardinality(DOMAIN collected_data) >= 2
    /\ summary.total = Cardinality(DOMAIN collected_data) + 1

\* C19: no operation of a manager ends by an exception: setup_all_collectors
\* ends with a boolean and collect_all_data with a summary.
ManagerNeverRaises ==
    /\ mpc # "raised"
    /\ mpc = "done" => retval \in {"TRUE", "FALSE"}
    /\ mpc = "collected" => summary.total = Len(collectors)

SetupRaiseCaughtReached ==
    /\ mpc = "done"
    /\ retval = "FALSE"
    /\ \E i \in 1..Len(setup_log) : setup_log[i][2] = "raise"

\* C20: a step of setup_all_collectors invokes setup() only on a collector
\* whose flag is true and leaves every flag and the registry as they were.
SetupLeavesFlags ==
    [][(mpc = "setup" /\ setup_log' # setup_log)
          => /\ enabled[collectors[idx]]
             /\ enabled' = enabled
             /\ collectors' = collectors]_vars

\* The step is an iteration of the dispatch loop for an event frame.
EventStep == nframes' # nframes /\ data' = 0

NavigateReturned ==
    /\ variant = "src"
    /\ calls[Navigator].op = "navigate"
    /\ calls[Navigator].pc = "returned"

LoadHandlerIds ==
    {h.id : h \in {x \in AllHandlers : x.kind = "on_load_event"}}

\* C13: a navigate_to call that reached its load wait returns True exactly
\* if a load event was dispatched before the timer of the wait fired; the
\* load future, once done, changes only by a new navigate_to call; and an
\* event dispatched after the call returned changes nothing of the call and
\* makes no on_load_event handler raise.
NavigateSettledOnce ==
    [][/\ (NavigateReturned'
             /\ calls'[Navigator].cause \in {"loaded", "loadtimeout"})
          => (calls'[Navigator].outcome = "True" <=> load_seen' # "no")
       /\ (page_loaded \in {"result", "cancelled"}
             /\ page_loaded' # page_loaded)
          => (page_loaded' = "pending" /\ ncalls' = ncalls + 1)
       /\ EventStep => raised' \cap LoadHandlerIds = {}
       /\ (EventStep /\ NavigateReturned) => calls' = calls]_vars

LateLoadEventReached ==
    /\ NavigateReturned
    /\ calls[Navigator].cause = "loadtimeout"
    /\ calls[Navigator].outcome = "False"
    /\ load_seen = "no"
    /\ page_loaded = "cancelled"
    /\ event = LoadEvent
    /\ \E i \in 1..Len(invoked) : \A k \in LoadHandlerIds : k <= invoked[i]
    /\ raised = {}

\* C14: the step of navigate_to that hands Page.navigate to the socket has
\* created the load future and registered on_load_event, and a call that
\* saw a load event before its command was acknowledged returns True.
LoadHandlerBeforeCommand ==
    [][/\ (variant = "src" /\ calls'[Navigator].op = "navigate"
             /\ Len(wire') > Len(wire))
          => /\ page_loaded' = "pending"
             /\ Len(event_handlers'[LoadEvent])
                  = Len(event_handlers[LoadEvent]) + 1
             /\ event_handlers'[LoadEvent][Len(event_handlers'[LoadEvent])].kind
                  = "on_load_event"
       /\ (NavigateReturned' /\ load_seen' = "early"
             /\ calls'[Navigator].cause \in {"loaded", "loadtimeout"})
          => calls'[Navigator].outcome = "True"]_vars

EarlyLoadEventReached ==
    /\ NavigateReturned
    /\ load_seen = "early"
    /\ calls[Navigator].cause = "loaded"
    /\ calls[Navigator].outcome = "True"

\* C15: the dispatch of an event calls every handler of its method, those
\* after a handler that raised included, leaves the loop running and leaves
\* every pending command and every call as they were.
HandlerFailureIsolated ==
    [][EventStep
          => /\ Len(invoked') = Len(event_handlers[event'])
             /\ \A i \in 1..Len(invoked') :
                   invoked'[i] = event_handlers[event'][i].id
             /\ listener' = "running"
             /\ pending_commands' = pending_commands
             /\ calls' = calls]_vars

RaisingHandlerFirstReached ==
    /\ Len(invoked) >= 2
    /\ invoked[1] \in raised
    /\ invoked[Len(invoked)] \notin raised
    /\ calls[Navigator].pc = "waiting"
    /\ pending_commands[calls[Navigator].id].state = "pending"
    /\ page_loaded = "result"

\* C16: the dispatch of an event calls exactly the handlers registered for
\* its method, each once, by ascending rank of registration, and leaves the
\* handler table as it was.
HandlersInRegistrationOrder ==
    [][EventStep
          => /\ \A i, j \in 1..Len(invoked') :
                   i < j => invoked'[i] < invoked'[j]
             /\ {invoked'[i] : i \in 1..Len(invoked')}
                  = {h.id : h \in {x \in AllHandlers : x.method = event'}}
             /\ event_handlers' = event_handlers]_vars

TwoHandlersInvokedReached ==
    /\ Len(invoked) >= 2
    /\ \E h \in AllHandlers : h.method # event
    /\ \E h \in AllHandlers : h.method = event /\ h.kind = "plain"

\* C17: collect() of a collector returns a result, and the result has its
\* error set whenever a command the collect() issued failed.
CollectReportsFailure ==
    (operation = "collect" /\ step = 0 /\ returned # "none")
       => /\ returned \in {"result", "error_result"}
          /\ failures # {} => returned = "error_result"

\* C18: setup() of a collector returns a boolean, and returns False
\* whenever a command the setup() issued failed.
SetupReportsFailure ==
    (operation = "setup" /\ step = 0 /\ returned # "none")
       => /\ returned \in {"True", "False"}
          /\ failures # {} => returned = "False"

\* ------------------------------------------- the performance service
\* PerformanceService.collect_performance_data over the src manager: it
\* awaits setup_all_collectors, raises when that returned False, and only
\* otherwise awaits collect_all_data and returns its result.
InitService ==
    /\ InitManager
    /\ variant = "src"

\* Whether collect_performance_data goes on to collect_all_data after
\* setup_all_collectors returned ret.
ServiceCollects(ret) == ret = "TRUE"

\* The call up to the first await inside setup_all_collectors.
ServiceBegin ==
    /\ service \in {"idle", "returned", "raised"}
    /\ SetupAllBegin
    /\ service' = "setup"

\* setup_all_collectors has returned.
ServiceAfterSetup ==
    /\ service = "setup"
    /\ mpc = "done"
    /\ IF ServiceCollects(retval)
       THEN /\ CollectAllBegin
            /\ service' = "collect"
       ELSE /\ service' = "raised"
            /\ UNCHANGED <<cvars, mvars, evars, kvars, rvars, wvars, bvars, nvars, lvars, dvars>>

\* collect_all_data has returned: the service hands its result on.
ServiceReturn ==
    /\ service = "collect"
    /\ mpc = "collected"
    /\ service' = "returned"
    /\ UNCHANGED <<cvars, mvars, evars, kvars, rvars, wvars, bvars, nvars, lvars, dvars>>

NextService ==
    \/ ServiceBegin
    \/ \E r \in SetupOutcomes : SetupStep(r)
    \/ ServiceAfterSetup
    \/ \E r \in CollectOutcomes : CollectStep(r)
    \/ ServiceReturn

SpecService == InitService /\ [][NextService]_vars

\* --------------------------------------------------------- the registry
\* CollectorManager of src: register_collector, get_collector and
\* get_all_collectors over the dict self.collectors. A collector object is
\* named by the position of its registration.
InitRegistry ==
    /\ variant = "src"
    /\ websocket = "open"
    /\ listener = "running"
    /\ command_id = 0
    /\ pending_commands = <<>>
    /\ enabled_domains = {}
    /\ calls = [c \in Callers |-> IdleCall]
    /\ wire = <<>>
    /\ data = 0
    /\ ncalls = 0
    /\ last = "none"
    /\ nframes = 0
    /\ collectors = <<>>
    /\ enabled = <<>>
    /\ mpc = "idle"
    /\ idx = 0
    /\ required = {}
    /\ setup_results = <<>>
    /\ setup_log = <<>>
    /\ retval = "none"
    /\ collected_data = <<>>
    /\ collection_results = <<>>
    /\ summary = NoSummary
    /\ NoEvents
    /\ NoOperation
    /\ NoService
    /\ NoRegistrations
    /\ NoNetworkEvents
    /\ NoneDropped
    /\ NoNavigation
    /\ InitialLoops
    /\ NoCollected

\* The keys of the dict after `self.collectors[name] = collector`: a key
\* that is present keeps its place, a new one goes last.
KeysAfterAppend(keys, name) == Append(keys, name)
KeysAfter(keys, name) ==
    IF name \in Names(keys) THEN keys ELSE Append(keys, name)

\* register_collector(collector), the collector being a new object of that
\* name (BaseCollector.__init__ leaves it disabled in src).
RegisterCollector(name) ==
    /\ Len(registrations) < MaxRegistrations
    /\ registrations' = Append(registrations, name)
    /\ collectors' = KeysAfter(collectors, name)
    /\ objects' = [n \in DOMAIN objects \cup {name} |->
                      IF n = name THEN Len(registrations) + 1 ELSE objects[n]]
    /\ enabled' = [n \in DOMAIN enabled \cup {name} |->
                      IF n = name THEN InitiallyEnabled(variant)
                      ELSE enabled[n]]
    /\ UNCHANGED <<asked, got, got_all>>
    /\ UNCHANGED <<cvars, evars, kvars, svars, wvars, bvars, nvars, lvars, dvars, mpc, idx, required,
                   setup_results, setup_log, retval, collected_data,
                   collection_results, summary>>

\* get_collector(name): `self.collectors.get(name)`.
GetCollector(name) ==
    /\ asked' = name
    /\ got' = IF name \in DOMAIN objects THEN objects[name] ELSE 0
    /\ UNCHANGED <<registrations, objects, got_all>>
    /\ UNCHANGED <<cvars, mvars, evars, kvars, svars, wvars, bvars, nvars, lvars, dvars>>

\* get_all_collectors(): `list(self.collectors.values())`.
GetAllCollectors ==
    /\ got_all' = [i \in 1..Len(collectors) |-> objects[collectors[i]]]
    /\ UNCHANGED <<registrations, objects, asked, got>>
    /\ UNCHANGED <<cvars, mvars, evars, kvars, svars, wvars, bvars, nvars, lvars, dvars>>

NextRegistry ==
    \/ \E n \in Names(Registered(variant)) : RegisterCollector(n)
    \/ \E n \in Names(Registered(variant)) : GetCollector(n)
    \/ GetAllCollectors

SpecRegistry == InitRegistry /\ [][NextRegistry]_vars

\* ------------------------------------------- the src collectors' state
\* NetworkCollector and PaintCollector of src keep what they measured in
\* self.requests and self.paint_data; reset() is BaseCollector.reset.
InitResults ==
    /\ InitManager
    /\ variant = "src"

Measurements == 0..MaxMeasure
Metrics == {"fcp", "lcp"}

\* What reset() leaves in self.requests: BaseCollector.reset only clears
\* the enabled flag.
RequestsAfterReset(r) == r

\* reset_all_collectors(): reset() on every registered collector.
ResetAllCollectors ==
    /\ enabled' = [n \in DOMAIN enabled |-> FALSE]
    /\ requests' = RequestsAfterReset(requests)
    /\ collector_state' = "reset"
    /\ UNCHANGED <<net_result, paint_data, paint_results>>
    /\ UNCHANGED <<cvars, evars, kvars, svars, rvars, wvars, bvars, nvars, lvars, collectors, mpc, idx,
                   required, setup_results, setup_log, retval,
                   collected_data, collection_results, summary>>

\* NetworkCollector.collect(): execute_javascript yields the measurement m
\* (0: nothing, falsy) or raises.
NetworkCollect(m, raises) ==
    /\ IF raises
       THEN /\ net_result' = [data |-> 0, measured |-> m,
                              state |-> collector_state, error |-> TRUE]
            /\ UNCHANGED <<requests, collector_state>>
       ELSE /\ requests' = IF m # 0 THEN m ELSE requests
            /\ collector_state' = IF m # 0 THEN "used" ELSE collector_state
            /\ net_result' = [data |-> requests', measured |-> m,
                              state |-> collector_state, error |-> FALSE]
    /\ UNCHANGED <<paint_data, paint_results>>
    /\ UNCHANGED <<cvars, mvars, evars, kvars, svars, rvars, wvars, bvars, nvars, lvars>>

\* `self.paint_data.update(d)` for the metric k measured as v (0: falsy,
\* no update).
Updated(pd, k, v) ==
    IF v = 0 THEN pd
    ELSE [x \in DOMAIN pd \cup {k} |-> IF x = k THEN v ELSE pd[x]]

\* Whether the data of the result _create_result(self.paint_data) returns
\* is the collector's own dict.
ResultIsAlias == TRUE

\* PaintCollector.collect(): the helpers yield fcp and lcp, or one raises.
PaintCollect(fcp, lcp, raises) ==
    /\ Len(paint_results) < MaxResults
    /\ IF raises
       THEN /\ paint_results' = Append(paint_results,
                                       [alias |-> FALSE, seen |-> <<>>])
            /\ UNCHANGED paint_data
       ELSE /\ paint_data' = Updated(Updated(paint_data, "fcp", fcp),
                                     "lcp", lcp)
            /\ paint_results' = Append(paint_results,
                                       [alias |-> ResultIsAlias,
                                        seen |-> paint_data'])
    /\ UNCHANGED <<requests, collector_state, net_result>>
    /\ UNCHANGED <<cvars, mvars, evars, kvars, svars, rvars, wvars, bvars, nvars, lvars>>

\* The data a caller that kept the i-th result reads in it now.
ResultData(i) ==
    IF paint_results[i].alias THEN paint_data ELSE paint_results[i].seen

NextResults ==
    \/ ResetAllCollectors
    \/ \E m \in Measurements, r \in BOOLEAN : NetworkCollect(m, r)
    \/ \E f, l \in Measurements, r \in BOOLEAN : PaintCollect(f, l, r)

SpecResults == InitResults /\ [][NextResults]_vars

\* ------------------------------ the modules NetworkCollector's events
\* The event-driven NetworkCollector keeps one entry per requestId in
\* request_data and appends a record per request to network_events; the
\* client calls its handlers from the dispatch loop.
InitNetwork ==
    /\ InitManager
    /\ variant = "modules"

\* params.get("requestId") of an event that carries none.
NoRequestId == 0
RequestIds == {1, 2}
NetworkKinds == {"requestWillBeSent", "responseReceived",
                 "loadingFinished", "loadingFailed"}

\* The "type" the handler of a Network.* event writes into the entry.
TypeOf(kind) ==
    CASE kind = "requestWillBeSent" -> "request_sent"
      [] kind = "responseReceived" -> "response_received"
      [] kind = "loadingFinished" -> "loading_finished"
      [] kind = "loadingFailed" -> "loading_failed"

\* `if request_id and request_id in self.request_data`
KnownAlways(id, rd) == id # NoRequestId
Known(id, rd) == id # NoRequestId /\ id \in DOMAIN rd

\* request_data once the entry of id holds `type`.
Stored(rd, id, type) ==
    [i \in DOMAIN rd \cup {id} |-> IF i = id THEN type ELSE rd[i]]

\* One call of the collector's handler of the event: _on_request_sent
\* replaces the entry and appends it to network_events, the three others
\* update the entry of a known request.
OnEvent(kind, id, st) ==
    IF kind = "requestWillBeSent"
    THEN IF id # NoRequestId
         THEN [rd |-> Stored(st.rd, id, TypeOf(kind)),
               ev |-> Append(st.ev, id)]
         ELSE st
    ELSE IF Known(id, st.rd)
         THEN [rd |-> Stored(st.rd, id, TypeOf(kind)), ev |-> st.ev]
         ELSE st

\* The dispatch loop calls every handler in the event's list: n copies of
\* the collector's handler, one after the other.
RECURSIVE CallHandlers(_, _, _, _)
CallHandlers(n, kind, id, st) ==
    IF n = 0 THEN st
    ELSE CallHandlers(n - 1, kind, id, OnEvent(kind, id, st))

\* What reset() leaves of the collector's handlers in the client's lists:
\* reset() does not touch the client.
HandlersAfterReset(n) == n

\* The requests collect() reports.
ReportedAny(rd) == DOMAIN rd
Reported(rd) == {id \in DOMAIN rd : rd[id] = "loading_finished"}

\* setup() opens a session of a new or reset collector:
\* enable_domain("Network"), whose result `ok` is not looked at, then
\* add_event_handler for each of the four events.
NetworkSetup(ok) ==
    /\ session \in {"new", "reset"}
    /\ net_handlers < MaxSessions
    /\ net_handlers' = net_handlers + 1
    /\ session' = "setup"
    /\ UNCHANGED <<request_data, network_events, resources, trace, collected>>
    /\ UNCHANGED <<cvars, mvars, evars, kvars, svars, rvars, dvars, lvars,
                   nvars, bvars>>

\* The dispatch loop reads the event Network.<kind> with requestId id.
\* The events are the browser's: their `request` and `response` members
\* are objects and encodedDataLength is a number, so no handler raises
\* before it has written the entry.
NetworkEvent(kind, id) ==
    /\ net_handlers > 0
    /\ Len(trace) < MaxTrace
    /\ LET st == CallHandlers(net_handlers, kind, id,
                              [rd |-> request_data, ev |-> network_events])
       IN /\ request_data' = st.rd
          /\ network_events' = st.ev
    /\ trace' = Append(trace, <<kind, id>>)
    /\ collected' = FALSE
    /\ UNCHANGED <<net_handlers, resources, session>>
    /\ UNCHANGED <<cvars, mvars, evars, kvars, svars, rvars, dvars, lvars,
                   nvars, bvars>>

\* collect(): the resources are built from request_data.
NetworkCollectResources ==
    /\ resources' = Reported(request_data)
    /\ collected' = TRUE
    /\ UNCHANGED <<request_data, network_events, net_handlers, trace, session>>
    /\ UNCHANGED <<cvars, mvars, evars, kvars, svars, rvars, dvars, lvars,
                   nvars, bvars>>

\* reset(): BaseCollector.reset, then the collector's lists are emptied.
NetworkReset ==
    /\ request_data' = <<>>
    /\ network_events' = <<>>
    /\ net_handlers' = HandlersAfterReset(net_handlers)
    /\ trace' = <<>>
    /\ collected' = FALSE
    /\ session' = "reset"
    /\ UNCHANGED resources
    /\ UNCHANGED <<cvars, mvars, evars, kvars, svars, rvars, dvars, lvars,
                   nvars, bvars>>

NextNetwork ==
    \/ \E ok \in BOOLEAN : NetworkSetup(ok)
    \/ \E kind \in NetworkKinds, id \in RequestIds \cup {NoRequestId} :
           NetworkEvent(kind, id)
    \/ NetworkCollectResources
    \/ NetworkReset

SpecNetwork == InitNetwork /\ [][NextNetwork]_vars

\* ---------------------------------------------------- claims C21 .. C30
Settled(k) == pending_commands[k].state # "pending"

SettledAtMostOnce ==
    [][/\ \A k \in DOMAIN pending_commands \cap DOMAIN pending_commands' :
             Settled(k) => pending_commands'[k] = pending_commands[k]
       /\ nframes' # nframes => (calls' = calls /\ listener' = "running")
       /\ \A c \in Callers :
             (calls[c].pc = "waiting" /\ calls'[c].pc = "returned")
                => calls'[c].cause =
                      CASE pending_commands[calls[c].id].state = "result"
                              -> "reply"
                        [] pending_commands[calls[c].id].state = "exception"
                              -> "error"
                        [] OTHER -> "timeout"]_vars

\* The reply of a came after its timer had fired: b, sent after a, was
\* answered before that frame was decoded.
ReplyAfterTimeoutReached ==
    \E a, b \in Callers :
        /\ calls[a].pc = "waiting"
        /\ pending_commands[calls[a].id].state = "cancelled"
        /\ data = calls[a].id
        /\ calls[b].pc = "returned"
        /\ calls[b].cause = "reply"
        /\ calls[a].id < calls[b].id
        /\ listener = "running"

\* C24: the expiry of the timer of one call, and the resumption of that
\* call, leave the socket, the dispatch loop and every other entry of
\* pending_commands as they were; only that call's entry is removed.
TimeoutIsLocal ==
    [][\A c \in Callers :
          /\ (/\ calls[c].pc = "waiting"
              /\ pending_commands[calls[c].id].state = "pending"
              /\ calls' = calls
              /\ pending_commands'[calls[c].id].state = "cancelled")
             => /\ websocket' = websocket
                /\ listener' = listener
                /\ DOMAIN pending_commands' = DOMAIN pending_commands
                /\ \A k \in DOMAIN pending_commands \ {calls[c].id} :
                      pending_commands'[k] = pending_commands[k]
          /\ (/\ calls[c].pc = "waiting"
              /\ pending_commands[calls[c].id].state = "cancelled"
              /\ calls'[c].pc = "returned")
             => /\ websocket' = websocket
                /\ listener' = listener
                /\ DOMAIN pending_commands' =
                      DOMAIN pending_commands \ {calls[c].id}
                /\ \A k \in DOMAIN pending_commands' :
                      pending_commands'[k] = pending_commands[k]]_vars

OtherCommandSurvivesTimeoutReached ==
    \E a, b \in Callers :
        /\ calls[a].pc = "returned"
        /\ calls[a].cause = "timeout"
        /\ calls[b].pc = "waiting"
        /\ calls[b].id < calls[a].id
        /\ pending_commands[calls[b].id].state = "result"
        /\ data = calls[b].id
        /\ websocket = "open"
        /\ listener = "running"

EntryInsertedBeforeWrite ==
    [][/\ \A i \in (Len(wire) + 1)..Len(wire') :
             /\ wire'[i].id \in DOMAIN pending_commands'
             /\ pending_commands'[wire'[i].id] = NewFuture
       /\ \A c \in Callers :
             calls'[c].pc \in {"sending", "waiting"}
                => calls'[c].id \in DOMAIN pending_commands'
       /\ \A c \in Callers :
             (/\ nframes' # nframes
              /\ calls[c].pc \in {"sending", "waiting"}
              /\ data' = calls[c].id)
                => /\ calls[c].id \in DOMAIN pending_commands
                   /\ Settled(calls[c].id)']_vars

\* The reply was decoded while its caller was still in the socket write.
ReplyDuringWriteReached ==
    \E c \in Callers :
        /\ calls[c].pc = "sending"
        /\ calls[c].sendok
        /\ calls[c].op = "send"
        /\ pending_commands[calls[c].id].state = "result"
        /\ pending_commands[calls[c].id].value = calls[c].id
        /\ data = calls[c].id

\* C30: no step removes a domain from enabled_domains, and a domain enters
\* the set only in the step in which a call that sent `<d>.enable` on this
\* client resumes from a future settled with a result.
EnabledDomainsAppendOnly ==
    [][/\ enabled_domains \subseteq enabled_domains'
       /\ \A d \in enabled_domains' \ enabled_domains :
             \E c \in Callers :
                /\ calls[c].pc = "waiting"
                /\ calls[c].op \in {"enable", "connect"}
                /\ calls[c].arg = d
                /\ pending_commands[calls[c].id].state = "result"
                /\ \E i \in 1..Len(wire) :
                      /\ wire[i].id = calls[c].id
                      /\ wire[i].method = EnableMethod(d)
                /\ calls'[c].pc = "returned"]_vars

\* A domain is enabled, the enable of another one failed, and the client
\* has been disconnected.
EnabledKeptAfterFailureReached ==
    \E d \in enabled_domains, c \in Callers :
        /\ calls[c].pc = "returned"
        /\ calls[c].op = "enable"
        /\ calls[c].cause \in {"timeout", "error"}
        /\ calls[c].arg \notin enabled_domains
        /\ websocket = "closed"

\* C28: when collect_all_data has returned, total_collectors is the size of
\* the registry, enabled_collectors the number of enabled collectors,
\* successful_collections + failed_collections = enabled_collectors = the
\* number of entries of the data map, and failed_collections is the number
\* of entries whose error is set, whether collect() raised or returned an
\* error result.
SummaryCountsExact ==
    mpc = "collected" =>
        /\ summary.total = Len(collectors)
        /\ summary.enabled = Cardinality(EnabledNames)
        /\ summary.successful + summary.failed = summary.enabled
        /\ summary.enabled = Cardinality(DOMAIN collected_data)
        /\ summary.failed =
              Cardinality({n \in DOMAIN collected_data :
                  collected_data[n] \in {"error_entry", "error_result"}})

\* C29: when collect_performance_data has ended, every collector whose
\* setup succeeded in it has an entry in the data it collected, also when
\* the setup of another collector failed.
SetupFailureDoesNotAbortOthers ==
    service \in {"returned", "raised"} =>
        \A i \in 1..Len(setup_log) :
            setup_log[i][2] = "ok" => setup_log[i][1] \in DOMAIN collected_data

\* The object registered last under name n, 0 when none was.
LastRegistered(n) ==
    LET at == {i \in 1..Len(registrations) : registrations[i] = n}
    IN IF at = {} THEN 0 ELSE CHOOSE i \in at : \A j \in at : j <= i

RegisteredNames == {registrations[i] : i \in 1..Len(registrations)}

\* C21: get_collector(n) returns the collector registered last under n and
\* None when n was never registered; get_all_collectors() returns exactly
\* one collector per registered name, the one registered last under it; a
\* registration under a used name adds no entry.
RegisterThenGet ==
    [][/\ (asked' # asked \/ got' # got) => got' = LastRegistered(asked')
       /\ got_all' # got_all =>
             /\ Len(got_all') = Cardinality(RegisteredNames)
             /\ {got_all'[i] : i \in 1..Len(got_all')} =
                   {LastRegistered(n) : n \in RegisteredNames}
       /\ Len(registrations') > Len(registrations) =>
             LET n == registrations'[Len(registrations')]
             IN /\ objects'[n] = Len(registrations')
                /\ Len(collectors') =
                      Len(collectors) + (IF n \in RegisteredNames
                                         THEN 0 ELSE 1)]_vars

\* A name was registered twice, another was never registered, and both
\* have been looked up.
ReplacedCollectorReached ==
    /\ Len(registrations) = 3
    /\ registrations[1] = registrations[3]
    /\ registrations[2] # registrations[1]
    /\ got_all = <<3, 2>>
    /\ asked = registrations[1]
    /\ got = 3

\* C27: a call that is inside send_command eventually leaves it, by a
\* return or a raise.
EverySendCommandReturns ==
    \A c \in Callers :
        (calls[c].pc \in {"sending", "waiting"}) ~> (calls[c].pc = "returned")

\* A call whose reply never came, the dispatch loop having ended, returned
\* by its timer.
ReturnedWithoutDispatchLoopReached ==
    \E c \in Callers :
        /\ calls[c].pc = "returned"
        /\ calls[c].op = "send"
        /\ calls[c].cause = "timeout"
        /\ listener = "ended"
        /\ websocket = "closed"

\* C31: reset keeps every collector registered, and a collect() that runs
\* after a reset, with nothing stored since, and measures nothing returns
\* empty data.
ResetClearsAccumulatedState ==
    /\ collectors = Registered(variant)
    /\ (/\ net_result.state = "reset"
        /\ net_result.measured = 0
        /\ ~net_result.error)
          => net_result.data = 0

\* C32: the data of every result collect() has returned is what it was
\* when the result was returned.
ReturnedResultNeverChanges ==
    \A i \in 1..Len(paint_results) : ResultData(i) = paint_results[i].seen

\* C33: at most one listen_for_events loop is running on a client, whatever
\* public operations are called on it.
AtMostOneDispatchLoop == loops <= 1

\* C34: a navigate_to call returns True only for the load event of its own
\* navigation.
OnlyOwnLoadEventSettles ==
    (/\ NavigateReturned
     /\ calls[Navigator].cause = "loaded"
     /\ calls[Navigator].outcome = "True")
        => settled_by = nav

NavigateFailures == {"timeout", "error", "sendfail", "noframe", "notconnected"}

\* C35: navigate_to ends with True or False, never with an exception; when
\* its command failed or its reply had no frameId it ends with False
\* straight from the command, and it enters the wait for the load event
\* only from a command whose future holds a result.
NavigateNeverRaises ==
    [][(calls'[Navigator].op = "navigate" /\ calls' # calls)
          => /\ calls'[Navigator].pc = "returned"
                => calls'[Navigator].outcome \in {"True", "False"}
             /\ (/\ calls'[Navigator].pc = "returned"
                 /\ calls'[Navigator].cause \in NavigateFailures)
                => /\ calls'[Navigator].outcome = "False"
                   /\ calls[Navigator].pc # "loadwait"
             /\ (/\ calls'[Navigator].pc = "loadwait"
                 /\ calls[Navigator].pc # "loadwait")
                => /\ calls[Navigator].pc = "waiting"
                   /\ pending_commands[calls[Navigator].id].state = "result"]_vars

\* Page.navigate was answered without a frameId: the call returned False
\* and its load future is still pending.
NavigateWithoutFrameReached ==
    /\ NavigateReturned
    /\ calls[Navigator].cause = "noframe"
    /\ calls[Navigator].outcome = "False"
    /\ page_loaded = "pending"
    /\ nav \in owed

\* The call of c has written `<d>.enable` and has not returned yet.
EnableInFlight(c, d) ==
    /\ calls[c].op \in {"enable", "connect"}
    /\ calls[c].arg = d
    /\ calls[c].pc \in {"sending", "waiting"}
    /\ calls[c].sendok

\* C36: two concurrent enable_domain(d) calls write at most one
\* `<d>.enable` command: no two calls are in flight with that command.
ConcurrentEnableWritesOnce ==
    \A d \in Domains, a, b \in Callers :
        (EnableInFlight(a, d) /\ EnableInFlight(b, d)) => a = b

\* C37: the dispatch of a frame that is not JSON, or that has neither id
\* nor method, leaves the loop running and pending_commands, the handler
\* table, the handlers invoked, the load future and every call as they
\* were.
BadFrameDropped ==
    [][(nframes' # nframes /\ data' = -1)
          => /\ listener' = "running"
             /\ websocket' = websocket
             /\ pending_commands' = pending_commands
             /\ event_handlers' = event_handlers
             /\ invoked' = invoked
             /\ raised' = raised
             /\ page_loaded' = page_loaded
             /\ calls' = calls]_vars

\* After a dropped frame, the reply to the running command was dispatched
\* and settled its future.
ReplyAfterBadFrameReached ==
    /\ dropped
    /\ calls[Navigator].pc = "waiting"
    /\ pending_commands[calls[Navigator].id].state = "result"
    /\ data = calls[Navigator].id
    /\ listener = "running"

\* The requestWillBeSent events of id among the events tr.
SentAt(tr, id) ==
    {i \in 1..Len(tr) : tr[i] = <<"requestWillBeSent", id>>}

\* The events of id the collector recorded: those from the first
\* requestWillBeSent of id on.
RecordedAt(tr, id) ==
    {i \in 1..Len(tr) : tr[i][2] = id /\ \E j \in SentAt(tr, id) : j <= i}

\* The kind of the last recorded event of id, "none" if there is none.
LastRecorded(tr, id) ==
    IF RecordedAt(tr, id) = {} THEN "none"
    ELSE LET i == CHOOSE k \in RecordedAt(tr, id) :
                      \A j \in RecordedAt(tr, id) : j <= k
         IN tr[i][1]

\* C38: the resources collect() returned are exactly the requests whose
\* last recorded event is loadingFinished, whatever the order of the
\* Network.* events dispatched before it.
CollectReportsFinishedRequests ==
    collected =>
        resources = {id \in RequestIds :
                        LastRecorded(trace, id) = "loadingFinished"}

\* collect() reported one request and left out another whose
\* loadingFinished came before its requestWillBeSent was recorded.
UnrecordedFinishLeftOutReached ==
    /\ collected
    /\ \E a, b \in RequestIds :
          /\ a \in resources
          /\ b \notin resources
          /\ \E i \in 1..Len(trace) : trace[i] = <<"loadingFinished", b>>

\* C39: an event other than requestWillBeSent for a requestId without a
\* dispatched requestWillBeSent leaves request_data and network_events
\* unchanged, and request_data gets a new key only by the
\* requestWillBeSent event of that requestId.
UnknownRequestIgnored ==
    [][/\ \A kind \in NetworkKinds \ {"requestWillBeSent"},
             id \in RequestIds \cup {NoRequestId} :
             (trace' = Append(trace, <<kind, id>>) /\ SentAt(trace, id) = {})
                => /\ request_data' = request_data
                   /\ network_events' = network_events
       /\ \A id \in DOMAIN request_data' \ DOMAIN request_data :
             trace' = Append(trace, <<"requestWillBeSent", id>>)]_vars

\* A loadingFinished event of a request that was never sent was
\* dispatched last, while another request is recorded.
UnknownFinishDispatchedReached ==
    /\ Len(trace) >= 2
    /\ \E id \in RequestIds :
          /\ trace[Len(trace)] = <<"loadingFinished", id>>
          /\ id \notin DOMAIN request_data
    /\ DOMAIN request_data # {}

\* C40: the dispatch of one Network.requestWillBeSent appends exactly one
\* record to network_events, in every session of the collector.
RequestRecordedOncePerEvent ==
    [][\A id \in RequestIds :
          trace' = Append(trace, <<"requestWillBeSent", id>>)
             => Len(network_events') = Len(network_events) + 1]_vars

====
